---- MODULE Spec2Model ----
(***************************************************************************)
(* State store of openclaw: the filesystem backend (FilesystemDatastore,   *)
(* one JSON file per key, updates under a cross-process file lock) and the *)
(* database backend (PostgresDatastore, one row per key behind a           *)
(* write-through cache, background writes on a per-key promise chain,      *)
(* updates inside a transaction under an advisory lock).                   *)
(***************************************************************************)
EXTENDS Integers, Sequences, FiniteSets, TLC

\* ---------------------------------------------------------------- bounds
\* datastore method invocations (updateJsonWithLock, writeJson, writeText,
\* writeJsonWithBackup, delete, flush) per behaviour
MaxOps == 2

Keys == {"A", "B"}
Procs == {1, 2}
Updaters == {"inc", "keep", "throw"}

\* ------------------------------------------------------------ documents
\* A JSON object {count: n}.
Obj(n) == [t |-> "obj", n |-> n]
\* A JSON number n (a primitive: structuredClone returns the same value).
Num(n) == [t |-> "num", n |-> n]
\* The marker object {__text: s} of writeText.
TextDoc(s) == [t |-> "text", n |-> s.n]
Null == [t |-> "null", n |-> 0]
\* A registry file {entries: [...]}: n holds, for each container name, how
\* many entries carry it (name X in n % 4, name Y in n \div 4).
Reg(n) == [t |-> "reg", n |-> n]
\* The documents callers pass to the plain writes.
Docs == {Obj(0), Num(0)}

\* Raw file contents: no file, the bytes "{bad json", or JSON text.
NoFile == [t |-> "nofile", n |-> 0]
BadJson == [t |-> "bad", n |-> 0]
ParseError == [t |-> "SyntaxError", n |-> 0]

\* JSON.stringify(data, null, 2) as written by saveJsonFile.
stringify(d) ==
  [t |-> IF d.t = "obj" THEN "json" ELSE IF d.t = "reg" THEN "jsonreg" ELSE "jsonnum", n |-> d.n]
\* JSON.parse(raw): the document, or a SyntaxError.
JSONparse(raw) ==
  IF raw.t = "json" THEN Obj(raw.n)
  ELSE IF raw.t = "jsonreg" THEN Reg(raw.n)
  ELSE IF raw.t = "jsonnum" THEN Num(raw.n) ELSE ParseError

\* The updater callbacks handed to updateJsonWithLock:
\*   inc:   c -> {changed: true,  result: {count: (c?.count ?? 0) + 1}}
\*   keep:  c -> {changed: false, result: c}
\*   throw: raises
\* and the callbacks withRegistryMutation builds for updateRegistry (and
\* updateBrowserRegistry) and removeRegistryEntry:
\*   upsertX, upsertY: entries -> upsertEntry(entries, entry)
\*   removeX:          entries -> removeEntry(entries, "X"), null if none left
RegistryUpdaters == {"upsertX", "upsertY", "removeX"}
Names == {"X", "Y"}
containerName(fn) == IF fn = "upsertY" THEN "Y" ELSE "X"
\* How many entries of the list carry the name.
entriesNamed(entries, name) == IF name = "X" THEN entries % 4 ELSE entries \div 4
withCount(entries, name, c) ==
  IF name = "X" THEN (entries \div 4) * 4 + c ELSE c * 4 + (entries % 4)
isRegistryFile(d) == d.t = "reg"

\* Mutation: the new list holds the upserted entry only.
upsertEntryAlone(entries, name) == withCount(0, name, 1)
\* upsertEntry: filter out the entries of that name, push the merged entry.
upsertEntry(entries, name) == withCount(entries, name, 1)
\* Mutation: nothing is filtered out.
removeEntryNone(entries, name) == entries
\* removeEntry: filter out the entries of that name.
removeEntry(entries, name) == withCount(entries, name, 0)

\* const registry = data ?? { entries: [] }
registryOf(cur) == IF cur.t = "reg" THEN cur.n ELSE 0
\* mutate(registry.entries)
mutateEntries(fn, cur) ==
  IF fn = "removeX" THEN removeEntry(registryOf(cur), "X")
  ELSE upsertEntry(registryOf(cur), containerName(fn))

updaterThrows(fn, cur) ==
  IF fn \in RegistryUpdaters THEN cur # Null /\ ~isRegistryFile(cur) ELSE fn = "throw"
updaterChanged(fn, cur) ==
  IF fn = "removeX"
    THEN entriesNamed(mutateEntries(fn, cur), "X") # entriesNamed(registryOf(cur), "X")
    ELSE fn \in {"inc", "upsertX", "upsertY"}
updaterResult(fn, cur) ==
  IF fn = "inc" THEN Obj((IF cur.t = "obj" THEN cur.n ELSE 0) + 1)
  ELSE IF fn \in RegistryUpdaters THEN Reg(mutateEntries(fn, cur))
  ELSE cur

VARIABLES backend, ops, calls, base, files, lock,
          db, advLock, checkedOut, cache, tasks, writeChains, pendingWrites, flushes,
          budget, mig, sentinel, marker, input, output, mutated, preload, schema

\* The argument and the result of the pure function under study.
pureVars == <<input, output>>
\* What the store operations never change: the invocation budget of the
\* behaviour, the state of the startup migration, and the pure functions.
\* The objects a caller changed after handing them over, the preload state
\* of each PostgresDatastore instance, and the schema bookkeeping.
sideVars == <<mutated, preload, schema>>
auxVars == <<budget, mig, sentinel, marker, pureVars, sideVars>>
sharedVars == <<backend, auxVars, ops, calls, base>>
fsVars == <<files, lock>>
pgVars == <<db, advLock, checkedOut, cache, tasks, writeChains, pendingWrites, flushes>>
vars == <<backend, ops, calls, base, files, lock,
          db, advLock, checkedOut, cache, tasks, writeChains, pendingWrites, flushes,
          budget, mig, sentinel, marker, input, output, mutated, preload, schema>>

CallIds == 1..MaxOps
IdleCall == [proc |-> 0, key |-> "-", fn |-> "-", pc |-> "idle", cur |-> Null, err |-> "-",
             open |-> {}]
\* The calls that had been issued and had not returned when a registry
\* call is issued (kept with the call, to tell "before" from "during").
openCalls(fn) ==
  IF fn \in RegistryUpdaters
    THEN {c2 \in CallIds : calls[c2].pc \notin {"idle", "done", "failed"}}
    ELSE {}

\* `ops` counts the datastore method invocations issued so far; the model
\* stops issuing at the budget of the behaviour (MaxOps, or one more where
\* the behaviour starts from a loaded cache).
canInvoke == ops < budget

\* The next unused invocation slot (invocations are numbered in call order).
isNextCall(c) == canInvoke /\ calls[c].pc = "idle" /\ \A c2 \in CallIds : c2 < c => calls[c2].pc # "idle"

\* ------------------------------------------------------ filesystem backend
\* loadJsonFile(key) ?? null, as used by FilesystemDatastore.readJson.
loadJsonFile(k) ==
  IF files[k] = NoFile THEN Null
  ELSE IF JSONparse(files[k]) = ParseError THEN Null ELSE JSONparse(files[k])

FsReadJson(k) == loadJsonFile(k)

\* FilesystemDatastore.writeJson: saveJsonFile (tmp file + rename).
FsWriteJson(k, d) ==
  /\ backend = "fs"
  /\ canInvoke
  /\ files' = [files EXCEPT ![k] = stringify(d)]
  /\ ops' = ops + 1
  /\ UNCHANGED <<backend, auxVars, calls, base, lock, pgVars>>

\* FilesystemDatastore.writeText: the string is written verbatim.
FsWriteText(k, s) ==
  /\ backend = "fs"
  /\ canInvoke
  /\ files' = [files EXCEPT ![k] = s]
  /\ ops' = ops + 1
  /\ UNCHANGED <<backend, auxVars, calls, base, lock, pgVars>>

\* FilesystemDatastore.delete: unlink, ENOENT ignored.
FsDelete(k) ==
  /\ backend = "fs"
  /\ canInvoke
  /\ files' = [files EXCEPT ![k] = NoFile]
  /\ ops' = ops + 1
  /\ UNCHANGED <<backend, auxVars, calls, base, lock, pgVars>>

\* FilesystemDatastore.writeJsonWithBackup: tmp file + rename (the .bak copy
\* is another path and is not a key of the store).
FsWriteJsonWithBackup(k, d) == FsWriteJson(k, d)

\* Mutation: the callback is run without going through withFileLock.
FsUpdateJsonNoLock(c, k, fn) ==
  /\ backend = "fs"
  /\ isNextCall(c)
  /\ calls' = [calls EXCEPT ![c] = [IdleCall EXCEPT !.key = k, !.fn = fn, !.pc = "locked"]]
  /\ ops' = ops + 1
  /\ UNCHANGED <<backend, auxVars, base, fsVars, pgVars>>

\* FilesystemDatastore.updateJsonWithLock, up to the call of withFileLock.
FsUpdateJsonWithLock(c, k, fn) ==
  /\ backend = "fs"
  /\ isNextCall(c)
  /\ calls' = [calls EXCEPT ![c] = [IdleCall EXCEPT !.key = k, !.fn = fn, !.pc = "acquire",
                                                    !.open = openCalls(fn)]]
  /\ ops' = ops + 1
  /\ UNCHANGED <<backend, auxVars, base, fsVars, pgVars>>

\* withFileLock: an acquisition attempt that finds the lock free takes it.
withFileLockAcquire(c) ==
  /\ calls[c].pc = "acquire"
  /\ backend = "fs"
  /\ lock[calls[c].key] = 0
  /\ lock' = [lock EXCEPT ![calls[c].key] = c]
  /\ calls' = [calls EXCEPT ![c].pc = "locked"]
  /\ UNCHANGED <<backend, auxVars, ops, base, files, pgVars>>

\* withFileLock: the lock stayed held through the whole retry budget; the
\* call rejects (lock timeout) without running the callback.
withFileLockTimeout(c) ==
  /\ calls[c].pc = "acquire"
  /\ backend = "fs"
  /\ lock[calls[c].key] # 0
  /\ calls' = [calls EXCEPT ![c].pc = "failed", ![c].err = "lock timeout"]
  /\ UNCHANGED <<backend, auxVars, ops, base, fsVars, pgVars>>

\* withFileLock: the callback has settled, the lock is released and the
\* outcome of the callback becomes the outcome of the call.
withFileLockRelease(c) ==
  /\ calls[c].pc \in {"written", "threw"}
  /\ backend = "fs"
  /\ lock' = [lock EXCEPT ![calls[c].key] = IF @ = c THEN 0 ELSE @]
  /\ calls' = [calls EXCEPT ![c].pc = IF calls[c].pc = "written" THEN "done" ELSE "failed"]
  /\ UNCHANGED <<backend, auxVars, ops, base, files, pgVars>>

\* Mutation: malformed content is read as an empty document.
FsUpdReadLenient(c) ==
  /\ calls[c].pc = "locked"
  /\ backend = "fs"
  /\ calls' = [calls EXCEPT ![c].cur = loadJsonFile(calls[c].key), ![c].pc = "read"]
  /\ UNCHANGED <<backend, auxVars, ops, base, fsVars, pgVars>>

\* The callback, first half: existsSync + readFileSync + JSON.parse (strict).
FsUpdRead(c) ==
  /\ calls[c].pc = "locked"
  /\ backend = "fs"
  /\ LET raw == files[calls[c].key]
         cur == IF raw = NoFile THEN Null ELSE JSONparse(raw)
     IN calls' = [calls EXCEPT ![c].cur = IF cur = ParseError THEN Null ELSE cur,
                               ![c].pc = IF cur = ParseError THEN "threw" ELSE "read",
                               ![c].err = IF cur = ParseError THEN "SyntaxError" ELSE "-"]
  /\ UNCHANGED <<backend, auxVars, ops, base, fsVars, pgVars>>

\* The callback, second half: updater(current) and, if changed, saveJsonFile.
FsUpdWrite(c) ==
  /\ calls[c].pc = "read"
  /\ backend = "fs"
  /\ LET fn == calls[c].fn
         k == calls[c].key
     IN IF updaterThrows(fn, calls[c].cur)
          THEN /\ calls' = [calls EXCEPT ![c].pc = "threw", ![c].err = "updater"]
               /\ files' = files
          ELSE /\ calls' = [calls EXCEPT ![c].pc = "written"]
               /\ files' = IF updaterChanged(fn, calls[c].cur)
                             THEN [files EXCEPT ![k] = stringify(updaterResult(fn, calls[c].cur))]
                             ELSE files
  /\ UNCHANGED <<backend, auxVars, ops, base, lock, pgVars>>

\* -------------------------------------------------------- database backend
TaskIds == 1..(MaxOps + 1)

\* Mutation: the lock id does not depend on the key.
advisoryLockIdOfNothing(key) == 1

\* advisoryLockId: the first 8 bytes of SHA-256(key) as a number; distinct
\* keys of the model get distinct ids (no hash collision).
advisoryLockId(key) == IF key = "A" THEN 1 ELSE 2
LockIds == {advisoryLockId(k) : k \in Keys}

\* A slot of the module-level cache Map: NoEntry when cache.has(key) is false,
\* otherwise the stored object (its document and its identity).
NoEntry == [val |-> [t |-> "undefined", n |-> 0], id |-> 0]
\* structuredClone(d): a new object with identity id; a primitive is returned
\* as the same value, which === cannot tell from any other equal primitive.
structuredClone(d, id) == [val |-> d, id |-> IF d.t = "num" THEN 0 ELSE id]

NoTask == [proc |-> 0, key |-> "-", op |-> "-", data |-> Null, cloned |-> NoEntry,
           prev |-> NoEntry, after |-> 0, st |-> "none"]
isNextTask(t) == canInvoke /\ tasks[t].st = "none" /\ \A t2 \in TaskIds : t2 < t => tasks[t2].st # "none"
settled(t) == tasks[t].st \in {"settled_ok", "settled_err"}
\* The chain the task was appended to (this._writeChains.get(dbKey) ??
\* Promise.resolve()) has settled.
chainSettled(t) == IF tasks[t].after = 0 THEN TRUE ELSE settled(tasks[t].after)
\* hadPrev = cache.has(dbKey), captured together with prev = cache.get(dbKey)
hadPrev(t) == tasks[t].prev # NoEntry

\* PostgresDatastore.readJson: a deep clone of the cached value, or null.
cacheGet(entry) == IF entry = NoEntry THEN Null ELSE entry.val
readJson(p, k) == cacheGet(cache[p][k])

\* The row of key k: select data from openclaw_kv where key = $1 (?? null).
selectData(k) == db[k]

\* A transaction of updateJsonWithLock holds an uncommitted upsert of row k;
\* other statements on that row wait for its commit or rollback.
rowLocked(k) ==
  \E c \in CallIds : /\ calls[c].key = k /\ calls[c].pc = "commit"
                     /\ updaterChanged(calls[c].fn, calls[c].cur)

\* Mutation: every task starts from Promise.resolve(), not from the chain of
\* its key.
enqueueUnchained(t, p, k, op, d, cloned) ==
  /\ tasks' = [tasks EXCEPT ![t] = [proc |-> p, key |-> k, op |-> op, data |-> d,
                                    cloned |-> cloned, prev |-> cache[p][k],
                                    after |-> 0, st |-> "queued"]]
  /\ writeChains' = [writeChains EXCEPT ![p][k] = t]
  /\ pendingWrites' = [pendingWrites EXCEPT ![p] = @ \cup {t}]

\* The promise chain and bookkeeping shared by writeJson and delete:
\* chain = (writeChains.get(dbKey) ?? Promise.resolve()).then(task).catch(..);
\* writeChains.set(dbKey, chain); pendingWrites.add(chain).
enqueue(t, p, k, op, d, cloned) ==
  /\ tasks' = [tasks EXCEPT ![t] = [proc |-> p, key |-> k, op |-> op, data |-> d,
                                    cloned |-> cloned, prev |-> cache[p][k],
                                    after |-> writeChains[p][k], st |-> "queued"]]
  /\ writeChains' = [writeChains EXCEPT ![p][k] = t]
  /\ pendingWrites' = [pendingWrites EXCEPT ![p] = @ \cup {t}]

\* Mutation: the cache is left for the background task to update.
PgWriteJsonLazy(t, p, k, d) ==
  /\ backend = "database"
  /\ isNextTask(t)
  /\ cache' = cache
  /\ enqueue(t, p, k, "upsert", d, structuredClone(d, t))
  /\ ops' = ops + 1
  /\ UNCHANGED <<backend, auxVars, calls, base, fsVars, db, advLock, checkedOut, flushes>>

\* PostgresDatastore.writeJson: publish a clone in the cache, chain the upsert.
PgWriteJson(t, p, k, d) ==
  /\ backend = "database"
  /\ isNextTask(t)
  /\ cache' = [cache EXCEPT ![p][k] = structuredClone(d, t)]
  /\ enqueue(t, p, k, "upsert", d, structuredClone(d, t))
  /\ ops' = ops + 1
  /\ UNCHANGED <<backend, auxVars, calls, base, fsVars, db, advLock, checkedOut, flushes>>

\* PostgresDatastore.writeText: writeJson(key, {__text: content}).
PgWriteText(t, p, k, s) == PgWriteJson(t, p, k, TextDoc(s))

\* PostgresDatastore.writeJsonWithBackup: writeJson(key, data).
PgWriteJsonWithBackup(t, p, k, d) == PgWriteJson(t, p, k, d)

\* PostgresDatastore.delete: clear the cache slot, chain the DELETE.
PgDelete(t, p, k) ==
  /\ backend = "database"
  /\ isNextTask(t)
  /\ cache' = [cache EXCEPT ![p][k] = NoEntry]
  /\ enqueue(t, p, k, "delete", Null, NoEntry)
  /\ ops' = ops + 1
  /\ UNCHANGED <<backend, auxVars, calls, base, fsVars, db, advLock, checkedOut, flushes>>

\* The .catch handler of writeJson: revert only if the slot still holds the
\* clone this call published.
writeJsonCatch(t) ==
  LET p == tasks[t].proc
      k == tasks[t].key
  IN IF cache[p][k] = tasks[t].cloned
       THEN [cache EXCEPT ![p][k] = IF hadPrev(t) THEN tasks[t].prev ELSE NoEntry]
       ELSE cache

\* The .catch handler of delete: restore only if the slot is still empty.
deleteCatch(t) ==
  LET p == tasks[t].proc
      k == tasks[t].key
  IN IF cache[p][k] = NoEntry /\ hadPrev(t)
       THEN [cache EXCEPT ![p][k] = tasks[t].prev]
       ELSE cache

\* Mutation: the chain has no finally block; the settled promise stays in
\* _pendingWrites and in _writeChains.
chainFinallyMissing(t) ==
  /\ pendingWrites' = pendingWrites
  /\ writeChains' = writeChains

\* The .finally callback of a chain: drop it from pendingWrites and, if it is
\* still the tail of the key's chain, from writeChains.
chainFinally(t) ==
  /\ pendingWrites' = [pendingWrites EXCEPT ![tasks[t].proc] = @ \ {t}]
  /\ writeChains' = IF writeChains[tasks[t].proc][tasks[t].key] = t
                      THEN [writeChains EXCEPT ![tasks[t].proc][tasks[t].key] = 0]
                      ELSE writeChains

\* A chained task runs once the previous chain of its key has settled: the
\* upsert or DELETE takes effect in the database, the chain settles ...
TaskRun(t) ==
  /\ tasks[t].st = "queued"
  /\ chainSettled(t)
  /\ ~rowLocked(tasks[t].key)
  /\ db' = [db EXCEPT ![tasks[t].key] = IF tasks[t].op = "upsert" THEN tasks[t].data ELSE Null]
  /\ tasks' = [tasks EXCEPT ![t].st = "settled_ok", ![t].cloned = NoEntry, ![t].prev = NoEntry]
  /\ chainFinally(t)
  /\ UNCHANGED <<sharedVars, fsVars, advLock, checkedOut, cache, flushes>>

\* ... or ensurePool() or pool.query rejects: the row is left as it was, the
\* .catch handler compensates the cache and the chain settles.
TaskFail(t) ==
  /\ tasks[t].st = "queued"
  /\ chainSettled(t)
  /\ cache' = IF tasks[t].op = "upsert" THEN writeJsonCatch(t) ELSE deleteCatch(t)
  /\ tasks' = [tasks EXCEPT ![t].st = "settled_err", ![t].cloned = NoEntry, ![t].prev = NoEntry]
  /\ chainFinally(t)
  /\ UNCHANGED <<sharedVars, fsVars, db, advLock, checkedOut, flushes>>

FlushIds == 1..MaxOps
NoFlush == [proc |-> 0, waitFor |-> {}, before |-> {}, pc |-> "idle"]
isNextFlush(f) == canInvoke /\ flushes[f].pc = "idle" /\ \A f2 \in FlushIds : f2 < f => flushes[f2].pc # "idle"

\* PostgresDatastore.flush: await Promise.allSettled(this._pendingWrites).
\* `before` remembers which writes and deletes the process had issued by then.
PgFlush(f, p) ==
  /\ backend = "database"
  /\ isNextFlush(f)
  /\ flushes' = [flushes EXCEPT ![f] = [proc |-> p, waitFor |-> pendingWrites[p],
                                        before |-> {t \in TaskIds : tasks[t].proc = p},
                                        pc |-> "waiting"]]
  /\ ops' = ops + 1
  /\ UNCHANGED <<backend, auxVars, calls, base, fsVars, db, advLock, checkedOut, cache, tasks, writeChains, pendingWrites>>

\* allSettled resolves once every awaited chain has settled, whatever its outcome.
PgFlushReturn(f) ==
  /\ flushes[f].pc = "waiting"
  /\ \A t \in flushes[f].waitFor : settled(t)
  /\ flushes' = [flushes EXCEPT ![f].pc = "returned"]
  /\ UNCHANGED <<sharedVars, fsVars, db, advLock, checkedOut, cache, tasks, writeChains, pendingWrites>>

\* FilesystemDatastore.flush: no-op.
FsFlush(f) ==
  /\ backend = "fs"
  /\ isNextFlush(f)
  /\ flushes' = [flushes EXCEPT ![f].pc = "returned"]
  /\ ops' = ops + 1
  /\ UNCHANGED <<backend, auxVars, calls, base, fsVars, db, advLock, checkedOut, cache, tasks, writeChains, pendingWrites>>

\* What the caller of flush() gets.  A background task's promise rejects
\* when its statement failed; the chain is that promise with .catch(handler)
\* appended, and the handler returns normally; Promise.allSettled collects
\* the chains' results and never rejects; flush awaits it and returns void.
thenOutcome(st) == IF st = "settled_err" THEN "rejected" ELSE "fulfilled"
catchOutcome(o) == IF o = "rejected" THEN "fulfilled" ELSE o
flushOutcome(sts) ==
  LET results == {catchOutcome(thenOutcome(st)) : st \in sts}
  IN [state |-> "fulfilled", value |-> "undefined"]

\* PostgresDatastore.updateJsonWithLock up to the advisory lock statement:
\* ensurePool(), pool.connect() and "begin" succeed ...
PgUpdateJsonWithLock(c, p, k, fn) ==
  /\ backend = "database"
  /\ isNextCall(c)
  /\ calls' = [calls EXCEPT ![c] = [IdleCall EXCEPT !.proc = p, !.key = k, !.fn = fn, !.pc = "lock",
                                                    !.open = openCalls(fn)]]
  /\ checkedOut' = checkedOut \cup {c}
  /\ ops' = ops + 1
  /\ UNCHANGED <<backend, auxVars, base, fsVars, db, advLock, cache, tasks, writeChains, pendingWrites, flushes>>

\* ... or ensurePool() or pool.connect() rejects: no client, no transaction.
PgUpdConnectFail(c, p, k, fn) ==
  /\ backend = "database"
  /\ isNextCall(c)
  /\ calls' = [calls EXCEPT ![c] = [IdleCall EXCEPT !.proc = p, !.key = k, !.fn = fn, !.pc = "failed", !.err = "connect"]]
  /\ ops' = ops + 1
  /\ UNCHANGED <<backend, auxVars, base, fsVars, pgVars>>

\* Mutation: the transaction goes on to its select without waiting for the
\* advisory lock to be free.
PgUpdLockNoWait(c) ==
  /\ backend = "database"
  /\ calls[c].pc = "lock"
  /\ advLock' = [advLock EXCEPT ![advisoryLockId(calls[c].key)] = c]
  /\ calls' = [calls EXCEPT ![c].pc = "select"]
  /\ UNCHANGED <<backend, auxVars, ops, base, fsVars, db, checkedOut, cache, tasks, writeChains, pendingWrites, flushes>>

\* select pg_advisory_xact_lock(advisoryLockId(dbKey)): granted when free.
PgUpdLock(c) ==
  /\ backend = "database"
  /\ calls[c].pc = "lock"
  /\ advLock[advisoryLockId(calls[c].key)] = 0
  /\ advLock' = [advLock EXCEPT ![advisoryLockId(calls[c].key)] = c]
  /\ calls' = [calls EXCEPT ![c].pc = "select"]
  /\ UNCHANGED <<backend, auxVars, ops, base, fsVars, db, checkedOut, cache, tasks, writeChains, pendingWrites, flushes>>

\* The value the transaction callback returns: result if changed, else current.
txValue(c) ==
  IF updaterChanged(calls[c].fn, calls[c].cur) THEN updaterResult(calls[c].fn, calls[c].cur) ELSE calls[c].cur

\* select data from openclaw_kv where key = $1 (read committed), then
\* updater(current): it throws, or the callback goes on to the upsert (if
\* changed) and returns.
PgUpdSelect(c) ==
  /\ backend = "database"
  /\ calls[c].pc = "select"
  /\ calls' = [calls EXCEPT ![c].cur = selectData(calls[c].key),
                            ![c].pc = IF updaterThrows(calls[c].fn, selectData(calls[c].key))
                                        THEN "threw" ELSE "commit",
                            ![c].err = IF updaterThrows(calls[c].fn, selectData(calls[c].key))
                                         THEN "updater" ELSE "-"]
  /\ UNCHANGED <<backend, auxVars, ops, base, fsVars, pgVars>>

\* Mutation: the finally block does not release the client after a commit.
withTransactionCommitKeepClient(c) ==
  /\ backend = "database"
  /\ calls[c].pc = "commit"
  /\ db' = IF updaterChanged(calls[c].fn, calls[c].cur)
             THEN [db EXCEPT ![calls[c].key] = txValue(c)] ELSE db
  /\ advLock' = [advLock EXCEPT ![advisoryLockId(calls[c].key)] = 0]
  /\ calls' = [calls EXCEPT ![c].pc = "reconcile"]
  /\ UNCHANGED <<backend, auxVars, ops, base, fsVars, checkedOut, cache, tasks, writeChains, pendingWrites, flushes>>

\* withTransaction: the upsert (if changed) and "commit" succeed: the row
\* change becomes visible and the advisory lock ends; the finally block
\* releases the client.
withTransactionCommit(c) ==
  /\ backend = "database"
  /\ calls[c].pc = "commit"
  /\ db' = IF updaterChanged(calls[c].fn, calls[c].cur) THEN [db EXCEPT ![calls[c].key] = txValue(c)] ELSE db
  /\ advLock' = [advLock EXCEPT ![advisoryLockId(calls[c].key)] = 0]
  /\ checkedOut' = checkedOut \ {c}
  /\ calls' = [calls EXCEPT ![c].pc = "reconcile"]
  /\ UNCHANGED <<backend, auxVars, ops, base, fsVars, cache, tasks, writeChains, pendingWrites, flushes>>

\* Mutation: no "rollback" is sent; the upsert already executed stays.
withTransactionNoRollback(c) ==
  /\ backend = "database"
  /\ calls[c].pc \in {"lock", "select", "commit", "threw"}
  /\ db' = IF calls[c].pc = "commit" /\ updaterChanged(calls[c].fn, calls[c].cur)
             THEN [db EXCEPT ![calls[c].key] = txValue(c)] ELSE db
  /\ advLock' = [advLock EXCEPT ![advisoryLockId(calls[c].key)] = IF @ = c THEN 0 ELSE @]
  /\ checkedOut' = checkedOut \ {c}
  /\ calls' = [calls EXCEPT ![c].pc = "failed",
                            ![c].err = IF calls[c].pc = "threw" THEN "updater"
                                       ELSE IF calls[c].pc = "commit" THEN "commit" ELSE "statement"]
  /\ UNCHANGED <<backend, auxVars, ops, base, fsVars, cache, tasks, writeChains, pendingWrites, flushes>>

\* withTransaction, catch and finally: the updater threw or a statement (lock,
\* select, upsert, commit) rejected; "rollback" drops the uncommitted upsert
\* and the advisory lock, the client is released, the error is rethrown.
withTransactionRollback(c) ==
  /\ backend = "database"
  /\ calls[c].pc \in {"lock", "select", "commit", "threw"}
  /\ advLock' = [advLock EXCEPT ![advisoryLockId(calls[c].key)] = IF @ = c THEN 0 ELSE @]
  /\ checkedOut' = checkedOut \ {c}
  /\ calls' = [calls EXCEPT ![c].pc = "failed",
                            ![c].err = IF calls[c].pc = "threw" THEN "updater"
                                       ELSE IF calls[c].pc = "commit" THEN "commit" ELSE "statement"]
  /\ UNCHANGED <<backend, auxVars, ops, base, fsVars, db, cache, tasks, writeChains, pendingWrites, flushes>>

\* Mutation: the cache is updated only when the updater changed the document.
PgUpdReconcileIfChanged(c) ==
  /\ backend = "database"
  /\ calls[c].pc = "reconcile"
  /\ cache' = IF updaterChanged(calls[c].fn, calls[c].cur)
                THEN [cache EXCEPT ![calls[c].proc][calls[c].key] = structuredClone(txValue(c), 0 - c)]
                ELSE cache
  /\ calls' = [calls EXCEPT ![c].pc = "done"]
  /\ UNCHANGED <<backend, auxVars, ops, base, fsVars, db, advLock, checkedOut, tasks, writeChains, pendingWrites, flushes>>

\* What a caller's in-place change makes of a JSON object.
Mutated == Obj(9)
\* The objects callers can still reach after the store has used them: the
\* data argument of write task n, the value a readJson of process n
\* returned, the object the transaction callback of call n returned.
objectOf(kind, n) == [kind |-> kind, n |-> n]

\* The object the transaction callback returned, as it is when the code
\* after `await withTransaction` clones it: the caller's changes included.
reconcileValue(c) ==
  IF objectOf("result", c) \in mutated THEN Mutated ELSE txValue(c)

\* After withTransaction resolved: reconcile the cache with the value observed
\* under the lock.  The commit is in effect in the database (row visible,
\* advisory lock gone) before its response reaches the process, so other
\* transactions, of this process too, can run between the two steps.
PgUpdReconcile(c) ==
  /\ backend = "database"
  /\ calls[c].pc = "reconcile"
  /\ cache' = [cache EXCEPT ![calls[c].proc][calls[c].key] =
                 IF reconcileValue(c) # Null THEN structuredClone(reconcileValue(c), 0 - c) ELSE NoEntry]
  /\ calls' = [calls EXCEPT ![c].pc = "done"]
  /\ UNCHANGED <<backend, auxVars, ops, base, fsVars, db, advLock, checkedOut, tasks, writeChains, pendingWrites, flushes>>

\* A migration run of one booting process: where it is, the files or rows it
\* still has to handle, the rows it selected, the key it is about to save,
\* its `failed` counter, the number of insert statements and file writes it
\* issued, whether a statement or a file write of it threw, and whether
\* another run had returned when it started (and with which `failed`).
IdleMig == [pc |-> "idle", todo |-> {}, rows |-> [k \in Keys |-> Null], cur |-> "-",
            failed |-> 0, issued |-> 0, env |-> FALSE, after |-> "none"]

\* No migration runs, no sentinel row, no marker file.
InitMig ==
  /\ mig = [p \in Procs |-> IdleMig]
  /\ sentinel = FALSE
  /\ marker = FALSE

\* The preload state of one PostgresDatastore instance:
\*   preloaded   _preloaded
\*   promise     _preloadPromise: "null", or who created it ("ensure" for
\*               ensurePreloaded, "background" for _triggerBackgroundPreload)
\*   settled     the state of that promise
\*   pc          where the preloadAll behind it is: "none", "pool" (awaiting
\*               ensurePool), "rows" (the select has run, its rows are on
\*               their way)
\*   rows        the rows the last select returned
\*   started     how many times ensurePreloaded started preloadAll
\*   ensured     how many times ensurePreloaded was called (initDatastore
\*               makes the first call)
\*   init        the caller awaiting ensurePreloaded(): "none", "awaiting",
\*               "resolved", "rejected"
\*   failed      whether the preloadAll the caller waited for failed
IdlePreload == [preloaded |-> FALSE, promise |-> "null", settled |-> "pending", pc |-> "none",
                rows |-> [k \in Keys |-> Null], started |-> 0,
                ensured |-> 0, init |-> "none", failed |-> FALSE]
\* The schema migrator.  The database side: the ids recorded in
\* openclaw_state_migrations and how many committed transactions ran each
\* migration's `up`.  Per process: the migrationsApplied flag.  Per
\* invocation of applyStateDbMigrations: its process, where it is, the ids
\* its select returned (seen), the migrations it has run and inserted in
\* its open transaction (did), and how many statements it has sent.
SchemaIds == {1, 2}
ApplyIds == 1..MaxOps
IdleApply == [proc |-> 0, pc |-> "idle", seen |-> {}, did |-> {}, stmts |-> 0]
IdleSchema == [recorded |-> {}, applied |-> [i \in SchemaIds |-> 0],
               flag |-> [p \in Procs |-> FALSE], run |-> [r \in ApplyIds |-> IdleApply]]

\* No object was changed behind the store, no preload and no schema
\* migration has started.
InitSide ==
  /\ mutated = {}
  /\ preload = [p \in Procs |-> IdlePreload]
  /\ schema = IdleSchema

\* No pure function is applied.
NoInput == [none |-> TRUE]
NoOutput == [done |-> FALSE, v |-> <<>>]
InitPure ==
  /\ input = NoInput
  /\ output = NoOutput

\* Nothing but store operations happens in the behaviour.
InitAux ==
  /\ budget = MaxOps
  /\ InitMig
  /\ InitPure
  /\ InitSide

InitFs ==
  /\ ops = 0
  /\ calls = [c \in CallIds |-> IdleCall]
  /\ lock = [k \in Keys |-> 0]
  /\ advLock = [i \in LockIds |-> 0]
  /\ checkedOut = {}
  /\ cache = [p \in Procs |-> [k \in Keys |-> NoEntry]]
  /\ tasks = [t \in TaskIds |-> NoTask]
  /\ writeChains = [p \in Procs |-> [k \in Keys |-> 0]]
  /\ pendingWrites = [p \in Procs |-> {}]
  /\ flushes = [f \in FlushIds |-> NoFlush]

\* A fresh store: no file, no row, empty caches.
Init ==
  /\ backend \in {"fs", "database"}
  /\ InitFs
  /\ InitAux
  /\ files = [k \in Keys |-> NoFile]
  /\ db = [k \in Keys |-> Null]
  /\ base = [k \in Keys |-> Null]

\* A store that already holds documents (or, on disk, malformed bytes) when
\* the updates start; `base` remembers what each key held.
InitUpd ==
  /\ backend \in {"fs", "database"}
  /\ InitFs
  /\ InitAux
  /\ files \in [Keys -> IF backend = "fs" THEN {NoFile, BadJson, stringify(Obj(0))} ELSE {NoFile}]
  /\ db \in [Keys -> IF backend = "database" THEN {Null, Obj(0)} ELSE {Null}]
  /\ base = IF backend = "fs"
              THEN [k \in Keys |-> IF files[k] = NoFile THEN Null ELSE JSONparse(files[k])]
              ELSE db

NextFsUpd ==
  \/ \E c \in CallIds, k \in Keys, fn \in Updaters : FsUpdateJsonWithLock(c, k, fn)
  \/ \E c \in CallIds : withFileLockAcquire(c)
  \/ \E c \in CallIds : withFileLockTimeout(c)
  \/ \E c \in CallIds : FsUpdRead(c)
  \/ \E c \in CallIds : FsUpdWrite(c)
  \/ \E c \in CallIds : withFileLockRelease(c)

NextFsPlain ==
  \/ \E k \in Keys, d \in Docs : FsWriteJson(k, d)
  \/ \E k \in Keys, d \in Docs : FsWriteJsonWithBackup(k, d)
  \/ \E k \in Keys : FsWriteText(k, BadJson)
  \/ \E k \in Keys : FsDelete(k)
  \/ \E f \in FlushIds : FsFlush(f)

NextPgUpd ==
  \/ \E c \in CallIds, p \in Procs, k \in Keys, fn \in Updaters : PgUpdateJsonWithLock(c, p, k, fn)
  \/ \E c \in CallIds, p \in Procs, k \in Keys, fn \in Updaters : PgUpdConnectFail(c, p, k, fn)
  \/ \E c \in CallIds : PgUpdLock(c)
  \/ \E c \in CallIds : PgUpdSelect(c)
  \/ \E c \in CallIds : withTransactionCommit(c)
  \/ \E c \in CallIds : withTransactionRollback(c)
  \/ \E c \in CallIds : PgUpdReconcile(c)

NextPgPlain ==
  \/ \E t \in TaskIds, p \in Procs, k \in Keys, d \in Docs : PgWriteJson(t, p, k, d)
  \/ \E t \in TaskIds, p \in Procs, k \in Keys, d \in Docs : PgWriteJsonWithBackup(t, p, k, d)
  \/ \E t \in TaskIds, p \in Procs, k \in Keys : PgWriteText(t, p, k, BadJson)
  \/ \E t \in TaskIds, p \in Procs, k \in Keys : PgDelete(t, p, k)
  \/ \E t \in TaskIds : TaskRun(t)
  \/ \E t \in TaskIds : TaskFail(t)
  \/ \E f \in FlushIds, p \in Procs : PgFlush(f, p)
  \/ \E f \in FlushIds : PgFlushReturn(f)

Next == NextFsUpd \/ NextFsPlain \/ NextPgUpd \/ NextPgPlain

Spec == Init /\ [][Next]_vars

\* Only updateJsonWithLock invocations, on a store with arbitrary content.
NextUpd == NextFsUpd \/ NextPgUpd
SpecUpd == InitUpd /\ [][NextUpd]_vars
\* Only updateJsonWithLock invocations, on a fresh store.
SpecUpdFresh == Init /\ [][NextUpd]_vars

\* PostgresDatastore.preloadAll, for one row: cache.set(row.key,
\* structuredClone(row.data)); a key without a row gets no entry.
preloadedEntry(d) == IF d = Null THEN NoEntry ELSE structuredClone(d, 0 - (MaxOps + 1))

\* One process on the database backend after initDatastore(): key A has a row
\* and ensurePreloaded() has put it in the cache; nothing is pending.
InitLoaded ==
  /\ backend = "database"
  /\ budget = MaxOps + 1
  /\ InitMig
  /\ InitPure
  /\ InitSide
  /\ ops = 0
  /\ calls = [c \in CallIds |-> IdleCall]
  /\ files = [k \in Keys |-> NoFile]
  /\ lock = [k \in Keys |-> 0]
  /\ db = [k \in Keys |-> IF k = "A" THEN Obj(1) ELSE Null]
  /\ base = db
  /\ advLock = [i \in LockIds |-> 0]
  /\ checkedOut = {}
  /\ cache = [p \in Procs |-> [k \in Keys |-> IF p = 1 THEN preloadedEntry(db[k]) ELSE NoEntry]]
  /\ tasks = [t \in TaskIds |-> NoTask]
  /\ writeChains = [p \in Procs |-> [k \in Keys |-> 0]]
  /\ pendingWrites = [p \in Procs |-> {}]
  /\ flushes = [f \in FlushIds |-> NoFlush]

\* Writes and deletes of that process on key A, and their background tasks.
NextLoaded ==
  \/ \E t \in TaskIds, d \in Docs : PgWriteJson(t, 1, "A", d)
  \/ \E t \in TaskIds : PgDelete(t, 1, "A")
  \/ \E t \in TaskIds : TaskRun(t)
  \/ \E t \in TaskIds : TaskFail(t)

SpecLoaded == InitLoaded /\ [][NextLoaded]_vars

\* ------------------------------------------------------------- restart
\* Mutation: the new process starts serving reads without the preload.
PgRestartNoPreload(p) ==
  /\ backend = "database"
  /\ canInvoke
  /\ \A c \in CallIds : calls[c].pc \in {"idle", "done", "failed"}
  /\ tasks' = [t \in TaskIds |->
                IF tasks[t].proc # p THEN tasks[t]
                ELSE [tasks[t] EXCEPT !.proc = 0 - p,
                                      !.st = IF @ = "queued" THEN "lost" ELSE @,
                                      !.cloned = NoEntry, !.prev = NoEntry]]
  /\ writeChains' = [writeChains EXCEPT ![p] = [k \in Keys |-> 0]]
  /\ pendingWrites' = [pendingWrites EXCEPT ![p] = {}]
  /\ cache' = [cache EXCEPT ![p] = [k \in Keys |-> NoEntry]]
  /\ ops' = ops + 1
  /\ UNCHANGED <<backend, auxVars, calls, base, fsVars, db, advLock, checkedOut, flushes>>

\* Process p exits and is started again on the database backend: the chained
\* tasks that have not run are gone with the old process (their issuer is
\* recorded as -p), the new process has an empty cache (module-level Map,
\* cleared by the constructor) and initDatastore() awaits ensurePreloaded(),
\* which fills it with every row.
PgRestart(p) ==
  /\ backend = "database"
  /\ canInvoke
  /\ \A c \in CallIds : calls[c].pc \in {"idle", "done", "failed"}
  /\ tasks' = [t \in TaskIds |->
                IF tasks[t].proc # p THEN tasks[t]
                ELSE [tasks[t] EXCEPT !.proc = 0 - p,
                                      !.st = IF @ = "queued" THEN "lost" ELSE @,
                                      !.cloned = NoEntry, !.prev = NoEntry]]
  /\ writeChains' = [writeChains EXCEPT ![p] = [k \in Keys |-> 0]]
  /\ pendingWrites' = [pendingWrites EXCEPT ![p] = {}]
  /\ cache' = [cache EXCEPT ![p] = [k \in Keys |-> preloadedEntry(db[k])]]
  /\ ops' = ops + 1
  /\ UNCHANGED <<backend, auxVars, calls, base, fsVars, db, advLock, checkedOut, flushes>>

\* A process of the filesystem backend exits and is started again: it keeps
\* no state of its own, the files stay.
FsRestart ==
  /\ backend = "fs"
  /\ canInvoke
  /\ ops' = ops + 1
  /\ UNCHANGED <<backend, auxVars, calls, base, fsVars, pgVars>>

\* Writes, their background tasks (none fails) and restarts.
NextRestart ==
  \/ \E k \in Keys, d \in Docs : FsWriteJson(k, d)
  \/ FsRestart
  \/ \E t \in TaskIds, p \in Procs, k \in Keys, d \in Docs : PgWriteJson(t, p, k, d)
  \/ \E t \in TaskIds : TaskRun(t)
  \/ \E p \in Procs : PgRestart(p)

SpecRestart == Init /\ [][NextRestart]_vars

\* ------------------------------------------------------------ aliasing
\* The caller changes, in place, the object it passed to writeJson as task
\* t. The cache holds structuredClone(data) and is not touched; the closure
\* of the chained task holds `data` itself and hands it to pool.query when
\* it runs, so a task that has not run yet will send the changed object.
MutateWritten(t) ==
  /\ backend = "database"
  /\ tasks[t].st # "none"
  /\ tasks[t].op = "upsert"
  /\ tasks[t].data.t = "obj"
  /\ objectOf("data", t) \notin mutated
  /\ mutated' = mutated \cup {objectOf("data", t)}
  /\ tasks' = [tasks EXCEPT ![t].data = IF tasks[t].st = "queued" THEN Mutated ELSE @]
  /\ UNCHANGED <<backend, budget, mig, sentinel, marker, pureVars, preload, schema,
                 ops, calls, base, fsVars, db, advLock, checkedOut, cache, writeChains,
                 pendingWrites, flushes>>

\* The caller changes a value readJson (or readJsonWithFallback) of process
\* p returned for key k: that value is a structuredClone made for the call,
\* no slot of the cache and no task refers to it.
MutateRead(p, k) ==
  /\ backend = "database"
  /\ readJson(p, k).t = "obj"
  /\ objectOf("read", p) \notin mutated
  /\ mutated' = mutated \cup {objectOf("read", p)}
  /\ UNCHANGED <<backend, budget, mig, sentinel, marker, pureVars, preload, schema,
                 ops, calls, base, fsVars, pgVars>>

\* The caller changes the object its updater returned (result, or the
\* current document when changed is false) while the call awaits its
\* upsert and "commit", or after the call returned. The upsert statement
\* was issued in the same turn as the updater returned; the clone for the
\* cache is made from the same object later, after "commit".
MutateResult(c) ==
  /\ backend = "database"
  /\ calls[c].pc \in {"commit", "done"}
  /\ txValue(c).t = "obj"
  /\ objectOf("result", c) \notin mutated
  /\ mutated' = mutated \cup {objectOf("result", c)}
  /\ UNCHANGED <<backend, budget, mig, sentinel, marker, pureVars, preload, schema,
                 ops, calls, base, fsVars, pgVars>>

InitAlias == Init /\ backend = "database"

\* One process writes and updates one key, and changes the objects it
\* holds.
NextAlias ==
  \/ \E t \in TaskIds : PgWriteJson(t, 1, "A", Obj(0))
  \/ \E t \in TaskIds : TaskRun(t)
  \/ \E c \in CallIds, fn \in {"inc", "keep"} : PgUpdateJsonWithLock(c, 1, "A", fn)
  \/ \E c \in CallIds : PgUpdLock(c)
  \/ \E c \in CallIds : PgUpdSelect(c)
  \/ \E c \in CallIds : withTransactionCommit(c)
  \/ \E c \in CallIds : PgUpdReconcile(c)
  \/ \E t \in TaskIds : MutateWritten(t)
  \/ MutateRead(1, "A")
  \/ \E c \in CallIds : MutateResult(c)

SpecAlias == InitAlias /\ [][NextAlias]_vars

\* ----------------------------------------------------- sandbox registry
\* SANDBOX_REGISTRY_PATH is key A, SANDBOX_BROWSER_REGISTRY_PATH key B.
\* readRegistryData(path, "fallback"): the entries of the document
\* getDatastore().readJson returns; none for null or a non-registry value.
readRegistry(p, k) ==
  LET parsed == IF backend = "fs" THEN FsReadJson(k) ELSE readJson(p, k)
  IN IF isRegistryFile(parsed) THEN parsed.n ELSE 0

\* The entries of the registry as stored: the file, or the committed row.
storedRegistry(k) ==
  registryOf(IF backend = "fs" THEN FsReadJson(k) ELSE selectData(k))

\* The registry is absent or holds one entry, named X; no process has read
\* it yet.
InitRegistry ==
  /\ backend \in {"fs", "database"}
  /\ InitFs
  /\ InitAux
  /\ \E d \in {Null, Reg(1)} :
       /\ base = [k \in Keys |-> d]
       /\ files = [k \in Keys |-> IF backend = "fs" /\ d # Null THEN stringify(d) ELSE NoFile]
       /\ db = [k \in Keys |-> IF backend = "database" THEN d ELSE Null]

\* updateRegistry, updateBrowserRegistry, removeRegistryEntry and
\* removeBrowserRegistryEntry, step by step.
\* One behaviour exercises one of the two registries.
oneRegistry(k) == \A c \in CallIds : calls[c].pc = "idle" \/ calls[c].key = k

NextRegistry ==
  \/ \E c \in CallIds : PgUpdReconcile(c)
  \/ \E c \in CallIds, k \in Keys, fn \in RegistryUpdaters :
       oneRegistry(k) /\ FsUpdateJsonWithLock(c, k, fn)
  \/ \E c \in CallIds : withFileLockAcquire(c)
  \/ \E c \in CallIds : withFileLockTimeout(c)
  \/ \E c \in CallIds : FsUpdRead(c)
  \/ \E c \in CallIds : FsUpdWrite(c)
  \/ \E c \in CallIds : withFileLockRelease(c)
  \/ \E c \in CallIds, p \in Procs, k \in Keys, fn \in RegistryUpdaters :
       oneRegistry(k) /\ PgUpdateJsonWithLock(c, p, k, fn)
  \/ \E c \in CallIds : PgUpdLock(c)
  \/ \E c \in CallIds : PgUpdSelect(c)
  \/ \E c \in CallIds : withTransactionCommit(c)
  \/ \E c \in CallIds : withTransactionRollback(c)

SpecRegistry == InitRegistry /\ [][NextRegistry]_vars

\* ----------------------------------------------------------- migration
\* Which earlier run a run follows: none had returned, one had returned with
\* failed = 0, or one had returned with failed > 0.
followsRun(p) ==
  IF \A q \in Procs \ {p} : mig[q].pc # "done" THEN "none"
  ELSE IF \A q \in Procs \ {p} : mig[q].pc = "done" => mig[q].failed = 0 THEN "clean"
  ELSE "failed"

\* Mutation: the run does not look for the sentinel row or the marker file.
MigStartNoCheck(p) ==
  /\ backend \in {"database", "fs"}
  /\ mig[p].pc = "idle"
  /\ LET found == IF backend = "database" THEN {k \in Keys : files[k] # NoFile}
                   ELSE {k \in Keys : db[k] # Null}
     IN mig' = [mig EXCEPT ![p] =
                  [@ EXCEPT !.after = followsRun(p),
                            !.pc = IF found = {} THEN "done"
                                   ELSE IF backend = "database" THEN "import" ELSE "restore",
                            !.todo = found,
                            !.rows = IF backend = "fs" THEN db ELSE @]]
  /\ UNCHANGED <<backend, budget, pureVars, sideVars, sentinel, marker, ops, calls, base, fsVars, pgVars>>

\* initDatastore() of a booting process p calls runDatastoreMigrationIfNeeded.
\* Database backend (upgrade): return if the sentinel row exists, else
\* collectJsonFiles; filesystem backend with the database URL still set
\* (downgrade): return if the marker file exists, else select the rows.
\* Nothing found: return at once (no sentinel, no marker).
MigStart(p) ==
  /\ backend \in {"database", "fs"}
  /\ mig[p].pc = "idle"
  /\ LET found == IF backend = "database" THEN {k \in Keys : files[k] # NoFile}
                   ELSE {k \in Keys : db[k] # Null}
         already == IF backend = "database" THEN sentinel ELSE marker
     IN mig' = [mig EXCEPT ![p] =
                  [@ EXCEPT !.after = followsRun(p),
                            !.pc = IF already \/ found = {} THEN "done"
                                   ELSE IF backend = "database" THEN "import" ELSE "restore",
                            !.todo = IF already THEN {} ELSE found,
                            !.rows = IF backend = "fs" /\ ~already THEN db ELSE @]]
  /\ UNCHANGED <<backend, budget, pureVars, sideVars, sentinel, marker, ops, calls, base, fsVars, pgVars>>

\* Mutation: the import statement is an upsert.
MigImportOverwrite(p, k) ==
  /\ backend = "database"
  /\ mig[p].pc = "import"
  /\ k \in mig[p].todo
  /\ IF files[k] = NoFile \/ JSONparse(files[k]) = ParseError
       THEN /\ mig' = [mig EXCEPT ![p] = [@ EXCEPT !.todo = @ \ {k}, !.failed = @ + 1]]
            /\ db' = db
       ELSE /\ mig' = [mig EXCEPT ![p] = [@ EXCEPT !.todo = @ \ {k}, !.issued = @ + 1]]
            /\ db' = [db EXCEPT ![k] = JSONparse(files[k])]
  /\ UNCHANGED <<backend, budget, pureVars, sideVars, sentinel, marker, ops, calls, base, fsVars,
                 advLock, checkedOut, cache, tasks, writeChains, pendingWrites, flushes>>

\* One turn of the loop of migrateFilesystemToDatabase: loadJsonFile(file);
\* undefined (corrupt or unreadable) counts as failed; otherwise
\* insert ... on conflict (key) do nothing.
MigImport(p, k) ==
  /\ backend = "database"
  /\ mig[p].pc = "import"
  /\ k \in mig[p].todo
  /\ IF files[k] = NoFile \/ JSONparse(files[k]) = ParseError
       THEN /\ mig' = [mig EXCEPT ![p] = [@ EXCEPT !.todo = @ \ {k}, !.failed = @ + 1]]
            /\ db' = db
       ELSE /\ mig' = [mig EXCEPT ![p] = [@ EXCEPT !.todo = @ \ {k}, !.issued = @ + 1]]
            /\ db' = [db EXCEPT ![k] = IF @ = Null THEN JSONparse(files[k]) ELSE @]
  /\ UNCHANGED <<backend, budget, pureVars, sideVars, sentinel, marker, ops, calls, base, fsVars,
                 advLock, checkedOut, cache, tasks, writeChains, pendingWrites, flushes>>

\* The same turn when the insert statement throws (connection lost): caught,
\* failed++.
MigImportFail(p, k) ==
  /\ backend = "database"
  /\ mig[p].pc = "import"
  /\ k \in mig[p].todo
  /\ files[k] # NoFile /\ JSONparse(files[k]) # ParseError
  /\ mig' = [mig EXCEPT ![p] = [@ EXCEPT !.todo = @ \ {k}, !.failed = @ + 1,
                                         !.issued = @ + 1, !.env = TRUE]]
  /\ UNCHANGED <<backend, budget, pureVars, sideVars, sentinel, marker, ops, calls, base, fsVars, pgVars>>

\* One turn of the loop of migrateDatabaseToFilesystem, first half:
\* fs.existsSync(filePath) -> continue.
MigExists(p, k) ==
  /\ backend = "fs"
  /\ mig[p].pc = "restore"
  /\ k \in mig[p].todo
  /\ mig' = [mig EXCEPT ![p] =
               IF files[k] # NoFile THEN [@ EXCEPT !.todo = @ \ {k}]
               ELSE [@ EXCEPT !.pc = "save", !.cur = k]]
  /\ UNCHANGED <<backend, budget, pureVars, sideVars, sentinel, marker, ops, calls, base, fsVars, pgVars>>

\* Second half: saveJsonFile(filePath, row.data) puts the row over whatever
\* is at the path by then.
MigSave(p) ==
  /\ backend = "fs"
  /\ mig[p].pc = "save"
  /\ files' = [files EXCEPT ![mig[p].cur] = stringify(mig[p].rows[mig[p].cur])]
  /\ mig' = [mig EXCEPT ![p] = [@ EXCEPT !.pc = "restore", !.todo = @ \ {mig[p].cur},
                                         !.cur = "-", !.issued = @ + 1]]
  /\ UNCHANGED <<backend, budget, pureVars, sideVars, sentinel, marker, ops, calls, base, lock, pgVars>>

\* saveJsonFile throws (disk full, permissions): caught, failed++.
MigSaveFail(p) ==
  /\ backend = "fs"
  /\ mig[p].pc = "save"
  /\ mig' = [mig EXCEPT ![p] = [@ EXCEPT !.pc = "restore", !.todo = @ \ {mig[p].cur},
                                         !.cur = "-", !.failed = @ + 1,
                                         !.issued = @ + 1, !.env = TRUE]]
  /\ UNCHANGED <<backend, budget, pureVars, sideVars, sentinel, marker, ops, calls, base, fsVars, pgVars>>

\* Mutation: the sentinel or the marker is written whatever `failed` is.
MigFinishAlways(p) ==
  /\ mig[p].pc \in {"import", "restore"}
  /\ mig[p].todo = {}
  /\ sentinel' = (sentinel \/ backend = "database")
  /\ marker' = (marker \/ backend = "fs")
  /\ mig' = [mig EXCEPT ![p].pc = "done"]
  /\ UNCHANGED <<backend, budget, pureVars, sideVars, ops, calls, base, fsVars, pgVars>>

\* After the loop: if (failed === 0) the sentinel row is inserted (on
\* conflict do nothing), respectively the marker file is written.
MigFinish(p) ==
  /\ mig[p].pc \in {"import", "restore"}
  /\ mig[p].todo = {}
  /\ sentinel' = (sentinel \/ (backend = "database" /\ mig[p].failed = 0))
  /\ marker' = (marker \/ (backend = "fs" /\ mig[p].failed = 0))
  /\ mig' = [mig EXCEPT ![p].pc = "done"]
  /\ UNCHANGED <<backend, budget, pureVars, sideVars, ops, calls, base, fsVars, pgVars>>

\* What is on disk and in the table when the processes boot: on an upgrade
\* files that may be corrupt and rows {count: 1}; on a downgrade files and
\* rows. `base` remembers what the destination of the migration held.
InitMigration ==
  /\ backend \in {"database", "fs"}
  /\ InitFs
  /\ InitAux
  /\ files \in [Keys -> IF backend = "database" THEN {NoFile, BadJson, stringify(Obj(0))}
                         ELSE {NoFile, stringify(Obj(0))}]
  /\ db \in [Keys -> {Null, Obj(1)}]
  /\ base = IF backend = "database" THEN db ELSE files

\* The runs of the booting processes, and the store operations of processes
\* that are already serving (on the database backend a process serves after
\* its own run returned).
NextMigration ==
  \/ \E p \in Procs : MigStart(p)
  \/ \E p \in Procs, k \in Keys : MigImport(p, k)
  \/ \E p \in Procs, k \in Keys : MigImportFail(p, k)
  \/ \E p \in Procs, k \in Keys : MigExists(p, k)
  \/ \E p \in Procs : MigSave(p)
  \/ \E p \in Procs : MigSaveFail(p)
  \/ \E p \in Procs : MigFinish(p)
  \/ \E k \in Keys : FsWriteJson(k, Num(0))
  \/ \E t \in TaskIds, p \in Procs, k \in Keys : mig[p].pc = "done" /\ PgWriteJson(t, p, k, Num(0))
  \/ \E t \in TaskIds : TaskRun(t)

SpecMigration == InitMigration /\ [][NextMigration]_vars

\* ------------------------------------------------------------- preload
\* Everything but the cache and the preload state.
preloadFrame ==
  <<backend, ops, calls, base, fsVars, db, advLock, checkedOut, tasks, writeChains,
    pendingWrites, flushes, budget, mig, sentinel, marker, pureVars, mutated, schema>>

MaxEnsured == 2

\* readJson(key) with !_preloaded && !cache.has(dbKey):
\* _triggerBackgroundPreload() finds _preloadPromise null and starts
\* preloadAll().  (Any other readJson changes nothing.)
ReadJsonBeforePreload(p, k) ==
  /\ backend = "database"
  /\ ~preload[p].preloaded
  /\ cache[p][k] = NoEntry
  /\ preload[p].promise = "null"
  /\ preload' = [preload EXCEPT ![p] = [@ EXCEPT !.promise = "background",
                                                  !.settled = "pending", !.pc = "pool"]]
  /\ UNCHANGED <<preloadFrame, cache>>

\* ensurePreloaded(): starts preloadAll() if _preloadPromise is null and
\* returns _preloadPromise; the caller awaits it.  The first call is the one
\* initDatastore() makes after runDatastoreMigrationIfNeeded has returned.
EnsurePreloaded(p) ==
  /\ backend = "database"
  /\ preload[p].init # "awaiting"
  /\ preload[p].ensured < MaxEnsured
  /\ preload[p].ensured = 0 => mig[p].pc = "done"
  /\ preload' = [preload EXCEPT ![p] =
       IF @.promise = "null"
         THEN [@ EXCEPT !.promise = "ensure", !.settled = "pending", !.pc = "pool",
                        !.started = @ + 1, !.ensured = @ + 1, !.init = "awaiting",
                        !.failed = FALSE]
         ELSE [@ EXCEPT !.ensured = @ + 1,
                        !.init = IF preload[p].settled = "pending" THEN "awaiting"
                                 ELSE preload[p].settled,
                        !.failed = preload[p].settled = "rejected"]]
  /\ UNCHANGED <<preloadFrame, cache>>

\* preloadAll: ensurePool() has returned and the database runs
\* select key, data from openclaw_kv.
PreloadSelect(p) ==
  /\ backend = "database"
  /\ preload[p].pc = "pool"
  /\ preload' = [preload EXCEPT ![p] = [@ EXCEPT !.pc = "rows", !.rows = db]]
  /\ UNCHANGED <<preloadFrame, cache>>

\* preloadAll: the rows arrive; cache.set(row.key, structuredClone(row.data))
\* for each row, _preloaded = true, and the promise resolves.
PreloadRows(p) ==
  /\ backend = "database"
  /\ preload[p].pc = "rows"
  /\ cache' = [cache EXCEPT ![p] = [k \in Keys |->
                 IF preload[p].rows[k] # Null THEN preloadedEntry(preload[p].rows[k])
                 ELSE cache[p][k]]]
  /\ preload' = [preload EXCEPT ![p] =
                   [@ EXCEPT !.pc = "none", !.preloaded = TRUE, !.settled = "resolved",
                             !.init = IF @ = "awaiting" THEN "resolved" ELSE @]]
  /\ UNCHANGED preloadFrame

\* preloadAll rejects (ensurePool or the select failed).  The promise of
\* ensurePreloaded rejects and stays in _preloadPromise; the promise of
\* _triggerBackgroundPreload runs its catch handler, which logs, sets
\* _preloadPromise to null and so fulfils the promise.
PreloadFail(p) ==
  /\ backend = "database"
  /\ preload[p].pc \in {"pool", "rows"}
  /\ preload' = [preload EXCEPT ![p] =
       IF @.promise = "ensure"
         THEN [@ EXCEPT !.pc = "none", !.settled = "rejected",
                        !.init = IF @ = "awaiting" THEN "rejected" ELSE @,
                        !.failed = IF preload[p].init = "awaiting" THEN TRUE ELSE @]
         ELSE [@ EXCEPT !.pc = "none", !.promise = "null", !.settled = "pending",
                        !.init = IF @ = "awaiting" THEN "resolved" ELSE @,
                        !.failed = IF preload[p].init = "awaiting" THEN TRUE ELSE @]]
  /\ UNCHANGED <<preloadFrame, cache>>

\* initDatastore() on the filesystem backend with the database URL set:
\* it returns when runDatastoreMigrationIfNeeded("database-to-filesystem")
\* has.
InitDatastoreFsReturn(p) ==
  /\ backend = "fs"
  /\ mig[p].pc = "done"
  /\ preload[p].init = "none"
  /\ preload' = [preload EXCEPT ![p].init = "resolved"]
  /\ UNCHANGED <<preloadFrame, cache>>

\* Files to import and rows, before process 1 boots.
InitPreload ==
  /\ backend \in {"database", "fs"}
  /\ InitFs
  /\ InitAux
  /\ files \in [Keys -> {NoFile, stringify(Obj(0))}]
  /\ db \in [Keys -> {Null, Obj(1)}]
  /\ base = db

\* Process 1 boots: reads made before initDatastore(), initDatastore()
\* (migration, then ensurePreloaded on the database), later
\* ensurePreloaded() calls.
NextPreload ==
  \/ \E k \in Keys : ReadJsonBeforePreload(1, k)
  \/ MigStart(1)
  \/ \E k \in Keys : MigImport(1, k)
  \/ \E k \in Keys : MigExists(1, k)
  \/ MigSave(1)
  \/ MigFinish(1)
  \/ EnsurePreloaded(1)
  \/ PreloadSelect(1)
  \/ PreloadRows(1)
  \/ PreloadFail(1)
  \/ InitDatastoreFsReturn(1)

SpecPreload == InitPreload /\ [][NextPreload]_vars

\* The same, with documents of key A written by process 1 and deleted by a
\* second process around the preload.
NextPreloadWrites ==
  \/ NextPreload
  \/ \E t \in TaskIds : PgWriteJson(t, 1, "A", Obj(0))
  \/ \E t \in TaskIds : PgDelete(t, 2, "A")
  \/ \E t \in TaskIds : TaskRun(t)

SpecPreloadWrites == InitPreload /\ [][NextPreloadWrites]_vars

\* ------------------------------------------------------ schema migrator
\* Everything but the schema state.
schemaFrame ==
  <<backend, ops, calls, base, fsVars, pgVars, budget, mig, sentinel, marker, pureVars,
    mutated, preload>>

\* The first migration of the list the invocation has neither seen recorded
\* nor run (0: none is left).
pendingMigration(r) ==
  LET left == SchemaIds \ (schema.run[r].seen \cup schema.run[r].did)
  IN IF left = {} THEN 0 ELSE CHOOSE i \in left : \A j \in left : i <= j

\* Another open transaction has inserted id i and not yet committed or
\* rolled back: the primary key makes a second insert of i wait.
insertedElsewhere(r, i) ==
  \E r2 \in ApplyIds \ {r} : schema.run[r2].pc \in {"loop", "threw"} /\ i \in schema.run[r2].did

\* applyStateDbMigrations(pool) in process p: return at once if
\* migrationsApplied, else pool.connect(), "begin" and
\* "create table if not exists openclaw_state_migrations".
ApplyStart(r, p) ==
  /\ backend = "database"
  /\ schema.run[r].pc = "idle"
  /\ \A r2 \in ApplyIds : r2 < r => schema.run[r2].pc # "idle"
  /\ schema' = [schema EXCEPT !.run[r] =
       IF schema.flag[p] THEN [@ EXCEPT !.proc = p, !.pc = "done"]
       ELSE [@ EXCEPT !.proc = p, !.pc = "select", !.stmts = 2]]
  /\ UNCHANGED schemaFrame

\* select id from openclaw_state_migrations: the committed ids.
ApplySelect(r) ==
  /\ backend = "database"
  /\ schema.run[r].pc = "select"
  /\ schema' = [schema EXCEPT !.run[r] = [@ EXCEPT !.pc = "loop", !.seen = schema.recorded,
                                                   !.stmts = @ + 1]]
  /\ UNCHANGED schemaFrame

\* Mutation: the ids have no primary key: an insert neither waits for nor
\* collides with another insert of the same id.
ApplyUpNoKey(r) ==
  /\ backend = "database"
  /\ schema.run[r].pc = "loop"
  /\ pendingMigration(r) # 0
  /\ schema' = [schema EXCEPT !.run[r] = [@ EXCEPT !.did = @ \cup {pendingMigration(r)},
                                                   !.stmts = @ + 2]]
  /\ UNCHANGED schemaFrame

\* One turn of the loop for a migration not in `applied`:
\* migration.up(client), then insert into openclaw_state_migrations (id).
\* The insert waits while another open transaction holds the id, and
\* fails on the primary key when the id has been committed meanwhile.
ApplyUp(r) ==
  /\ backend = "database"
  /\ schema.run[r].pc = "loop"
  /\ pendingMigration(r) # 0
  /\ ~insertedElsewhere(r, pendingMigration(r))
  /\ schema' = [schema EXCEPT !.run[r] =
       IF pendingMigration(r) \in schema.recorded
         THEN [@ EXCEPT !.pc = "threw", !.stmts = @ + 2]
         ELSE [@ EXCEPT !.did = @ \cup {pendingMigration(r)}, !.stmts = @ + 2]]
  /\ UNCHANGED schemaFrame

\* The loop is over: "commit" makes the transaction's migrations and ids
\* durable, then migrationsApplied = true, and the client is released.
ApplyCommit(r) ==
  /\ backend = "database"
  /\ schema.run[r].pc = "loop"
  /\ pendingMigration(r) = 0
  /\ schema' = [schema EXCEPT
                  !.recorded = @ \cup schema.run[r].did,
                  !.applied = [i \in SchemaIds |-> IF i \in schema.run[r].did THEN @[i] + 1 ELSE @[i]],
                  !.flag[schema.run[r].proc] = TRUE,
                  !.run[r] = [@ EXCEPT !.pc = "done", !.stmts = @ + 1]]
  /\ UNCHANGED schemaFrame

\* A statement rejected (or the insert hit the primary key): "rollback"
\* undoes the transaction's migrations and inserts, the error is rethrown,
\* the client is released; migrationsApplied is not touched.
ApplyRollback(r) ==
  /\ backend = "database"
  /\ schema.run[r].pc \in {"select", "loop", "threw"}
  /\ schema' = [schema EXCEPT !.run[r] = [@ EXCEPT !.pc = "failed", !.did = {},
                                                   !.stmts = @ + 1]]
  /\ UNCHANGED schemaFrame

\* A database that is new, or that an earlier release has migrated up to
\* the first migration.
InitSchema ==
  /\ backend = "database"
  /\ InitFs
  /\ budget = MaxOps
  /\ InitMig
  /\ InitPure
  /\ mutated = {}
  /\ preload = [p \in Procs |-> IdlePreload]
  /\ \E old \in {{}, {1}} :
       schema = [IdleSchema EXCEPT !.recorded = old,
                                   !.applied = [i \in SchemaIds |-> IF i \in old THEN 1 ELSE 0]]
  /\ files = [k \in Keys |-> NoFile]
  /\ db = [k \in Keys |-> Null]
  /\ base = [k \in Keys |-> Null]

NextSchema ==
  \/ \E r \in ApplyIds, p \in Procs : ApplyStart(r, p)
  \/ \E r \in ApplyIds : ApplySelect(r)
  \/ \E r \in ApplyIds : ApplyUp(r)
  \/ \E r \in ApplyIds : ApplyCommit(r)
  \/ \E r \in ApplyIds : ApplyRollback(r)

SpecSchema == InitSchema /\ [][NextSchema]_vars

\* ------------------------------------------------------ restart sentinel
\* resolveRestartSentinelPath() is key A; {version: 1, payload} is a
\* document no other write of the model stores.
SentinelKey == "A"
RestartSentinel == Obj(1)

\* Mutation: flush() is called before writeJson.
writeRestartSentinelFlushFirst(t, f, p) ==
  /\ backend = "database"
  /\ isNextTask(t)
  /\ isNextFlush(f)
  /\ cache' = [cache EXCEPT ![p][SentinelKey] = structuredClone(RestartSentinel, t)]
  /\ enqueue(t, p, SentinelKey, "upsert", RestartSentinel, structuredClone(RestartSentinel, t))
  /\ flushes' = [flushes EXCEPT ![f] = [proc |-> p, waitFor |-> pendingWrites[p],
                                        before |-> {t2 \in TaskIds : tasks[t2].proc = p} \cup {t},
                                        pc |-> "waiting"]]
  /\ ops' = ops + 1
  /\ UNCHANGED <<backend, auxVars, calls, base, fsVars, db, advLock, checkedOut>>

\* writeRestartSentinel on the database backend, up to its await:
\* getDatastore().writeJson(filePath, data), then flush(), which takes
\* _pendingWrites (the sentinel's chain included) into Promise.allSettled.
\* It resolves with PgFlushReturn.
writeRestartSentinel(t, f, p) ==
  /\ backend = "database"
  /\ isNextTask(t)
  /\ isNextFlush(f)
  /\ cache' = [cache EXCEPT ![p][SentinelKey] = structuredClone(RestartSentinel, t)]
  /\ enqueue(t, p, SentinelKey, "upsert", RestartSentinel, structuredClone(RestartSentinel, t))
  /\ flushes' = [flushes EXCEPT ![f] = [proc |-> p, waitFor |-> pendingWrites[p] \cup {t},
                                        before |-> {t2 \in TaskIds : tasks[t2].proc = p} \cup {t},
                                        pc |-> "waiting"]]
  /\ ops' = ops + 1
  /\ UNCHANGED <<backend, auxVars, calls, base, fsVars, db, advLock, checkedOut>>

\* writeRestartSentinel on the filesystem backend: writeJson saves the
\* file, flush() is a no-op.
FsWriteRestartSentinel(f) ==
  /\ backend = "fs"
  /\ isNextFlush(f)
  /\ files' = [files EXCEPT ![SentinelKey] = stringify(RestartSentinel)]
  /\ flushes' = [flushes EXCEPT ![f].pc = "returned"]
  /\ ops' = ops + 1
  /\ UNCHANGED <<backend, auxVars, calls, base, lock, db, advLock, checkedOut, cache, tasks,
                 writeChains, pendingWrites>>

\* A process writes other documents to the sentinel's key and to another
\* one, writes the restart sentinel, and is killed and started again.
NextSentinel ==
  \/ \E t \in TaskIds, k \in Keys : PgWriteJson(t, 1, k, Obj(0))
  \/ \E t \in TaskIds, f \in FlushIds : writeRestartSentinel(t, f, 1)
  \/ \E t \in TaskIds : TaskRun(t)
  \/ \E t \in TaskIds : TaskFail(t)
  \/ \E f \in FlushIds : PgFlushReturn(f)
  \/ PgRestart(1)
  \/ \E k \in Keys : FsWriteJson(k, Obj(0))
  \/ \E f \in FlushIds : FsWriteRestartSentinel(f)
  \/ FsRestart

SpecSentinel == Init /\ [][NextSentinel]_vars

\* ---------------------------------------------------- backend selection
\* Strings are sequences of characters here, so that trim, toLowerCase,
\* startsWith and slice do what they do.
UpperCase == <<"A", "B", "C", "D", "E", "F", "G", "H", "I", "J", "K", "L", "M",
               "N", "O", "P", "Q", "R", "S", "T", "U", "V", "W", "X", "Y", "Z">>
LowerCase == <<"a", "b", "c", "d", "e", "f", "g", "h", "i", "j", "k", "l", "m",
               "n", "o", "p", "q", "r", "s", "t", "u", "v", "w", "x", "y", "z">>
WhiteSpace == {" ", "\t", "\n"}

\* String.prototype.toLowerCase.
toLowerCase(str) ==
  [i \in 1..Len(str) |->
     IF \E j \in 1..26 : UpperCase[j] = str[i]
       THEN LowerCase[CHOOSE j \in 1..26 : UpperCase[j] = str[i]]
       ELSE str[i]]

RECURSIVE trimStart(_)
trimStart(str) ==
  IF str # <<>> /\ Head(str) \in WhiteSpace THEN trimStart(Tail(str)) ELSE str
RECURSIVE trimEnd(_)
trimEnd(str) ==
  IF str # <<>> /\ str[Len(str)] \in WhiteSpace THEN trimEnd(SubSeq(str, 1, Len(str) - 1)) ELSE str
\* String.prototype.trim.
trim(str) == trimEnd(trimStart(str))

\* An environment variable: unset, or set to a string.
Unset == [set |-> FALSE, s |-> <<>>]
SetTo(str) == [set |-> TRUE, s |-> str]

\* resolveStateDbUrl: env.OPENCLAW_STATE_DB_URL?.trim(), null when empty.
resolveStateDbUrl(env) ==
  IF env.OPENCLAW_STATE_DB_URL.set /\ trim(env.OPENCLAW_STATE_DB_URL.s) # <<>>
    THEN SetTo(trim(env.OPENCLAW_STATE_DB_URL.s)) ELSE Unset

\* Mutation: the URL is not looked at.
hasStateDbConfiguredAlways(env) == TRUE

\* hasStateDbConfigured: Boolean(resolveStateDbUrl(env)).
hasStateDbConfigured(env) == resolveStateDbUrl(env).set

S_database == <<"d", "a", "t", "a", "b", "a", "s", "e">>
S_db == <<"d", "b">>
S_fs == <<"f", "s">>
S_filesystem == <<"f", "i", "l", "e", "s", "y", "s", "t", "e", "m">>

\* resolveDatastoreType(): "fs", "database", or the message of the Error it
\* throws.
resolveDatastoreType(env) ==
  LET isSet == env.OPENCLAW_DATASTORE.set
      explicit == toLowerCase(trim(env.OPENCLAW_DATASTORE.s))
  IN IF isSet /\ (explicit = S_database \/ explicit = S_db)
       THEN IF ~hasStateDbConfigured(env)
              THEN "Error: OPENCLAW_STATE_DB_URL is not configured"
              ELSE "database"
     ELSE IF isSet /\ (explicit = S_fs \/ explicit = S_filesystem) THEN "fs"
     ELSE IF isSet /\ explicit # <<>> THEN "Error: Invalid OPENCLAW_DATASTORE value"
     ELSE "fs"

\* The values of OPENCLAW_DATASTORE tried: the accepted words, other words,
\* mixed case, each with and without white space around it; and unset.
DatastoreWords == {<<>>, S_fs, S_filesystem, S_database, S_db,
                   <<"F", "S">>, <<"D", "b">>, <<"D", "A", "T", "A", "B", "A", "S", "E">>,
                   <<"F", "i", "l", "e", "S", "y", "s", "t", "e", "m">>,
                   <<"s", "q", "l", "i", "t", "e">>, <<"d", "b", "x">>, <<"f", " ", "s">>}
Paddings == {<<>>, <<" ">>, <<"\t", "\n">>}
DatastoreValues ==
  {Unset} \cup {SetTo(l \o w \o r) : l \in Paddings, w \in DatastoreWords, r \in Paddings}
UrlValues == {Unset, SetTo(<<>>), SetTo(<<" ">>), SetTo(<<"p", "g", ":">>),
              SetTo(<<" ", "p", "g", ":", "\n">>)}

\* A process about to pick its backend, with some environment.
InitResolve ==
  /\ backend = "unresolved"
  /\ InitFs
  /\ budget = MaxOps
  /\ InitMig
  /\ InitSide
  /\ files = [k \in Keys |-> NoFile]
  /\ db = [k \in Keys |-> Null]
  /\ base = [k \in Keys |-> Null]
  /\ input \in [OPENCLAW_DATASTORE : DatastoreValues, OPENCLAW_STATE_DB_URL : UrlValues]
  /\ output = NoOutput

\* getDatastore(): const type = resolveDatastoreType(); the backend is
\* chosen unless it throws.
ResolveDatastoreType ==
  /\ ~output.done
  /\ output' = [done |-> TRUE, v |-> resolveDatastoreType(input)]
  /\ backend' = IF output'.v \in {"fs", "database"} THEN output'.v ELSE backend
  /\ UNCHANGED <<budget, mig, sentinel, marker, input, sideVars, ops, calls, base, fsVars, pgVars>>

NextResolve == ResolveDatastoreType

SpecResolve == InitResolve /\ [][NextResolve]_vars

\* ------------------------------------------------------ key normalizer
\* process.env.HOME ?? process.env.USERPROFILE ?? "".
homeOf(env) ==
  IF env.HOME.set THEN env.HOME.s
  ELSE IF env.USERPROFILE.set THEN env.USERPROFILE.s ELSE <<>>

\* String.prototype.startsWith.
startsWith(str, prefix) ==
  Len(str) >= Len(prefix) /\ SubSeq(str, 1, Len(prefix)) = prefix

\* String.prototype.slice(from).
slice(str, from) == SubSeq(str, from + 1, Len(str))

\* Mutation: the normalizer of the earlier datastore-pg.ts, which accepts
\* only "/" after the home directory and leaves it in the key.
normalizeKeyKeepSeparator(env, key) ==
  LET home == homeOf(env)
  IN IF /\ home # <<>>
        /\ startsWith(key, home)
        /\ (Len(key) = Len(home) \/ key[Len(home) + 1] = "/")
       THEN slice(key, Len(home))
       ELSE key

\* normalizeKey(key): strips the home directory and one separator.
normalizeKey(env, key) ==
  LET home == homeOf(env)
  IN IF /\ home # <<>>
        /\ startsWith(key, home)
        /\ (Len(key) = Len(home) \/ key[Len(home) + 1] = "/" \/ key[Len(home) + 1] = "\\")
       THEN LET sep == IF Len(key) > Len(home) /\ key[Len(home) + 1] \in {"/", "\\"}
                         THEN 1 ELSE 0
            IN slice(key, Len(home) + sep)
       ELSE key

\* const dbKey = normalizeKey(key) at the head of readJson, write,
\* updateJsonWithLock and delete.
storeDbKey(env, key) == normalizeKey(env, key)
\* const dbKey = normalizeKey(fullPath) in migrateFilesystemToDatabase.
importDbKey(env, fullPath) == normalizeKey(env, fullPath)

\* Home directories and paths tried.
P_h == <<"/", "h">>
P_hs == <<"/", "h", "/">>
P_win == <<"C", ":", "\\", "u">>
HomeValues == {Unset, SetTo(<<>>), SetTo(P_h), SetTo(P_hs)}
ProfileValues == {Unset, SetTo(P_win)}
PathTails == {<<>>, <<"/">>, <<"/", "a">>, <<"\\", "a">>, <<"x">>, <<"x", "/", "a">>,
              <<"/", "/", "a">>, <<"a">>}
PathValues == {b \o t : b \in {P_h, P_hs, P_win, <<>>, <<"/", "v">>, <<"/", "H">>}, t \in PathTails}

\* A path about to be normalized, in some environment.
InitNormalize ==
  /\ backend = "database"
  /\ InitFs
  /\ budget = MaxOps
  /\ InitMig
  /\ InitSide
  /\ files = [k \in Keys |-> NoFile]
  /\ db = [k \in Keys |-> Null]
  /\ base = [k \in Keys |-> Null]
  /\ input \in [HOME : HomeValues, USERPROFILE : ProfileValues, key : PathValues]
  /\ output = NoOutput

\* The same path handed to a store operation and to the importer.
NormalizeKey ==
  /\ ~output.done
  /\ output' = [done |-> TRUE, v |-> storeDbKey(input, input.key),
                imported |-> importDbKey(input, input.key)]
  /\ UNCHANGED <<backend, budget, mig, sentinel, marker, input, sideVars, ops, calls, base, fsVars, pgVars>>

NextNormalize == NormalizeKey

SpecNormalize == InitNormalize /\ [][NextNormalize]_vars

\* ------------------------------------------------- the two backends side by side
\* The remaining reads of FilesystemDatastore.
\* readText: the bytes of the file, or null (ENOENT).
FsReadText(k) == IF files[k] = NoFile THEN Null ELSE files[k]
\* readJson5: JSON.parse, then JSON5.parse, else throw ("{bad json" is
\* malformed for both).
FsReadJson5(k) == IF files[k] = NoFile THEN Null ELSE JSONparse(files[k])
\* readJsonWithFallback: {value: fallback, exists: false} when data == null.
FsReadJsonWithFallback(k) ==
  IF FsReadJson(k) = Null THEN [value |-> Null, exists |-> FALSE]
  ELSE [value |-> FsReadJson(k), exists |-> TRUE]

\* The remaining reads of PostgresDatastore.
\* readText: the __text of a marker object; null for any other document.
readText(p, k) ==
  IF readJson(p, k).t = "text" THEN [t |-> "bad", n |-> readJson(p, k).n] ELSE Null
readJson5(p, k) == readJson(p, k)
readJsonWithFallback(p, k) ==
  IF readJson(p, k) = Null THEN [value |-> Null, exists |-> FALSE]
  ELSE [value |-> readJson(p, k), exists |-> TRUE]

\* One process issues the same operation on a FilesystemDatastore and on a
\* PostgresDatastore (backend = "both"); no statement fails.
BothWrite(t, k, raw, d) ==
  /\ backend = "both"
  /\ isNextTask(t)
  /\ files' = [files EXCEPT ![k] = raw]
  /\ cache' = [cache EXCEPT ![1][k] = structuredClone(d, t)]
  /\ enqueue(t, 1, k, "upsert", d, structuredClone(d, t))
  /\ ops' = ops + 1
  /\ UNCHANGED <<backend, auxVars, calls, base, lock, db, advLock, checkedOut, flushes>>

BothWriteJson(t, k, d) == BothWrite(t, k, stringify(d), d)
BothWriteJsonWithBackup(t, k, d) == BothWrite(t, k, stringify(d), d)
BothWriteText(t, k, s) == BothWrite(t, k, s, TextDoc(s))

BothDelete(t, k) ==
  /\ backend = "both"
  /\ isNextTask(t)
  /\ files' = [files EXCEPT ![k] = NoFile]
  /\ cache' = [cache EXCEPT ![1][k] = NoEntry]
  /\ enqueue(t, 1, k, "delete", Null, NoEntry)
  /\ ops' = ops + 1
  /\ UNCHANGED <<backend, auxVars, calls, base, lock, db, advLock, checkedOut, flushes>>

\* An awaited updateJsonWithLock on both: the filesystem side parses the file
\* strictly, runs the updater and saves; the database side selects the row
\* as it is at that moment, runs the updater, commits and reconciles the cache.
BothUpdateJsonWithLock(k, fn) ==
  /\ backend = "both"
  /\ canInvoke
  /\ ~updaterThrows(fn, selectData(k))
  /\ files' = IF FsReadJson5(k) # ParseError /\ updaterChanged(fn, FsReadJson5(k))
                THEN [files EXCEPT ![k] = stringify(updaterResult(fn, FsReadJson5(k)))]
                ELSE files
  /\ LET value == IF updaterChanged(fn, selectData(k)) THEN updaterResult(fn, selectData(k))
                                                        ELSE selectData(k)
     IN /\ db' = [db EXCEPT ![k] = value]
        /\ cache' = [cache EXCEPT ![1][k] = preloadedEntry(value)]
  /\ ops' = ops + 1
  /\ UNCHANGED <<backend, auxVars, calls, base, lock, advLock, checkedOut, tasks,
                 writeChains, pendingWrites, flushes>>

InitBoth ==
  /\ backend = "both"
  /\ InitFs
  /\ InitAux
  /\ files = [k \in Keys |-> NoFile]
  /\ db = [k \in Keys |-> Null]
  /\ base = [k \in Keys |-> Null]

NextBoth ==
  \/ \E t \in TaskIds, k \in Keys, d \in Docs \cup {Obj(1)} : BothWriteJson(t, k, d)
  \/ \E t \in TaskIds, k \in Keys, d \in Docs : BothWriteJsonWithBackup(t, k, d)
  \/ \E t \in TaskIds, k \in Keys : BothWriteText(t, k, BadJson)
  \/ \E t \in TaskIds, k \in Keys : BothDelete(t, k)
  \/ \E k \in Keys, fn \in Updaters : BothUpdateJsonWithLock(k, fn)
  \/ \E t \in TaskIds : TaskRun(t)

SpecBoth == InitBoth /\ [][NextBoth]_vars

\* --------------------------------------------------------------- claims
\* The document stored under key k: the parsed file, or the row.
stored(k) ==
  IF backend = "fs" THEN (IF files[k] = NoFile THEN Null ELSE JSONparse(files[k])) ELSE db[k]
countOf(d) == IF d.t = "obj" THEN d.n ELSE 0
finished(c) == calls[c].pc \in {"done", "failed"}
incDone(k) == {c \in CallIds : calls[c].key = k /\ calls[c].fn = "inc" /\ calls[c].pc = "done"}

inSection(c) == calls[c].pc \in {"locked", "read", "written", "threw"}

C3_SynchronousVisibility ==
  [][\A t \in TaskIds :
       (tasks[t].st = "none" /\ tasks'[t].st = "queued") =>
         cacheGet(cache'[tasks'[t].proc][tasks'[t].key]) =
            IF tasks'[t].op = "upsert" THEN tasks'[t].data ELSE Null]_vars

\* A write is visible to readJson while its upsert is still queued and the
\* row does not hold the document.
C3_Witness ==
  \E t \in TaskIds :
    /\ tasks[t].st = "queued" /\ tasks[t].op = "upsert"
    /\ readJson(tasks[t].proc, tasks[t].key) = tasks[t].data
    /\ db[tasks[t].key] # tasks[t].data

\* The background tasks process p has issued on key k, in call order.
tasksOf(p, k) == {t \in TaskIds : tasks[t].st # "none" /\ tasks[t].proc = p /\ tasks[t].key = k}
lastTask(p, k) == CHOOSE t \in tasksOf(p, k) : \A t2 \in tasksOf(p, k) : t2 <= t
rowAfter(t) == IF tasks[t].op = "upsert" THEN tasks[t].data ELSE Null

\* C4: database backend: the statements of the writeJson, writeText and
\* delete calls of one process on one key run one at a time in call order (a
\* task has run only if every earlier task of that key has settled); when
\* all of them have settled without failure, and nothing else wrote the key,
\* the row is the effect of the last call.
C4_PerKeyOrder ==
  /\ \A t1, t2 \in TaskIds :
       (t1 < t2 /\ tasks[t1].proc = tasks[t2].proc /\ tasks[t1].key = tasks[t2].key
          /\ settled(t2)) => settled(t1)
  /\ \A p \in Procs, k \in Keys :
       (/\ tasksOf(p, k) # {}
        /\ \A t \in TaskIds : tasks[t].key = k => tasks[t].proc = p /\ tasks[t].st = "settled_ok"
        /\ \A c \in CallIds : calls[c].key # k)
       => db[k] = rowAfter(lastTask(p, k))

\* Two writes of one key ran in call order and the row holds the second.
C4_Witness ==
  \E t1, t2 \in TaskIds :
       /\ t1 < t2 /\ tasks[t1].proc = tasks[t2].proc /\ tasks[t1].key = tasks[t2].key
       /\ tasks[t1].st = "settled_ok" /\ tasks[t2].st = "settled_ok"
       /\ tasks[t1].data # tasks[t2].data /\ db[tasks[t2].key] = tasks[t2].data

\* C5: once flush() has returned, every writeJson, writeText,
\* writeJsonWithBackup and delete the process issued before that flush() is
\* durable: on the database backend its statement has been executed
\* successfully (filesystem writes are synchronous, so there it is immediate).
C5_FlushDurable ==
  \A f \in FlushIds :
    (backend = "database" /\ flushes[f].pc = "returned") =>
      \A t \in flushes[f].before : tasks[t].st = "settled_ok"

\* The step of call c: the action changed the record of c.
stepOf(c) == calls'[c] # calls[c]

\* C6 as stated: no step of an updateJsonWithLock whose updater returns
\* changed: false writes the file or the row, or changes what the cache of
\* the calling process holds for the key.
C6_UnchangedLeavesCache ==
  [][\A c \in CallIds :
       (stepOf(c) /\ calls'[c].fn = "keep") =>
         /\ files' = files /\ db' = db
         /\ calls'[c].proc \in Procs =>
              cacheGet(cache'[calls'[c].proc][calls'[c].key]) =
                cacheGet(cache[calls'[c].proc][calls'[c].key])]_vars

\* C6, amended: an updateJsonWithLock whose updater returns changed: false
\* writes neither the file nor the row; on the database backend its last
\* step replaces the cache entry of the key by a clone of the row it read
\* under the advisory lock (removes the entry when there was no row), and
\* no other step of the call and no other key's entry is touched.
C6_UnchangedReconciles ==
  [][\A c \in CallIds :
       (stepOf(c) /\ calls'[c].fn = "keep") =>
         /\ files' = files /\ db' = db
         /\ IF calls[c].pc = "reconcile"
              THEN /\ cacheGet(cache'[calls[c].proc][calls[c].key]) = calls[c].cur
                   /\ \A p \in Procs, k \in Keys :
                        <<p, k>> # <<calls[c].proc, calls[c].key>> => cache'[p][k] = cache[p][k]
              ELSE cache' = cache]_vars

\* An unchanged update has completed and has replaced the entry a pending
\* writeJson of the same process had published for the key.
C6_Witness ==
  \E c \in CallIds, t \in TaskIds :
    /\ calls[c].fn = "keep" /\ calls[c].pc = "done"
    /\ tasks[t].st = "queued" /\ tasks[t].op = "upsert"
    /\ tasks[t].proc = calls[c].proc /\ tasks[t].key = calls[c].key
    /\ readJson(calls[c].proc, calls[c].key) = calls[c].cur
    /\ readJson(calls[c].proc, calls[c].key) # tasks[t].data

\* C7: when a changed update of key k has completed and it is the only
\* mutation of k (no other update, write or delete of k was issued), a read
\* of k returns the new value in every process of the same backend.
C7_VisibleToAllReaders ==
  \A c \in CallIds :
    (/\ calls[c].pc = "done" /\ updaterChanged(calls[c].fn, calls[c].cur)
     /\ \A c2 \in CallIds : c2 # c => calls[c2].key # calls[c].key
     /\ \A t \in TaskIds : tasks[t].key # calls[c].key)
    => IF backend = "fs"
         THEN FsReadJson(calls[c].key) = txValue(c)
         ELSE \A p \in Procs : readJson(p, calls[c].key) = txValue(c)

\* C8: an updateJsonWithLock that rejects because its updater threw or a
\* statement of its transaction (the commit included) failed has had no
\* effect: no step of the call that changes a file, a row or a cache entry is
\* ever followed by its rejection, and when it rejects the file lock or the
\* advisory lock is released and the connection is back in the pool.
C8_FailedUpdateHasNoEffect ==
  [][\A c \in CallIds :
       stepOf(c) =>
         /\ (files' # files \/ db' # db \/ cache' # cache) =>
               calls'[c].pc \in {"written", "reconcile", "done"}
         /\ calls[c].pc \in {"written", "reconcile", "done"} => calls'[c].pc # "failed"
         /\ (calls'[c].pc = "failed" /\ calls'[c].err \in {"updater", "statement", "commit"}) =>
               /\ files' = files /\ db' = db /\ cache' = cache
               /\ c \notin checkedOut'
               /\ lock'[calls'[c].key] # c /\ advLock'[advisoryLockId(calls'[c].key)] # c]_vars

\* A changed update was rejected at its commit: the row and the cache entry
\* still hold the document the transaction had read, nothing is locked.
C8_Witness ==
  \E c \in CallIds :
    /\ calls[c].pc = "failed" /\ calls[c].err = "commit" /\ calls[c].fn = "inc"
    /\ calls[c].cur # Null
    /\ db[calls[c].key] = calls[c].cur
    /\ readJson(calls[c].proc, calls[c].key) = calls[c].cur
    /\ c \notin checkedOut /\ advLock[advisoryLockId(calls[c].key)] = 0

\* C9: filesystem backend: an updateJsonWithLock that finds the file of its
\* key malformed rejects with the parse error: from the locked section its
\* only step is the rejection (the updater is never run), no step of the call
\* changes a file, and once it has rejected the lock is released.
C9_CorruptFailsFast ==
  /\ [](\A c \in CallIds :
          calls[c].err = "SyntaxError" =>
            /\ calls[c].pc \in {"threw", "failed"}
            /\ calls[c].pc = "failed" => lock[calls[c].key] # c)
  /\ [][\A c \in CallIds :
          /\ (stepOf(c) /\ backend = "fs" /\ calls[c].pc = "locked"
                /\ files[calls[c].key] = BadJson) =>
               calls'[c].pc = "threw" /\ calls'[c].err = "SyntaxError" /\ files' = files
          /\ (stepOf(c) /\ calls[c].err = "SyntaxError") => files' = files]_vars

\* An update of a malformed file has rejected; the bytes are still there and
\* the lock is free.
C9_Witness ==
  \E c \in CallIds :
    /\ calls[c].pc = "failed" /\ calls[c].err = "SyntaxError"
    /\ files[calls[c].key] = BadJson
    /\ lock[calls[c].key] = 0

\* Process p has issued a write or delete of key k after task t.
supersededBy(t) ==
  {t2 \in TaskIds : /\ t2 > t /\ tasks[t2].st # "none"
                    /\ tasks[t2].proc = tasks[t].proc /\ tasks[t2].key = tasks[t].key}

\* C10: database backend: when the upsert of a writeJson fails and a later
\* write or delete of the key has been issued by the process, the cache
\* entry is left untouched; when the call is the last mutation of the key
\* (no later write or delete, no update of the key) the entry is reverted to
\* what it held just before the call (removed if it held none).
C10_RevertOnlyIfNotSuperseded ==
  [][\A t \in TaskIds :
       (tasks[t].st = "queued" /\ tasks'[t].st = "settled_err" /\ tasks[t].op = "upsert") =>
         LET p == tasks[t].proc
             k == tasks[t].key
         IN /\ supersededBy(t) # {} => cache'[p][k] = cache[p][k]
            /\ (supersededBy(t) = {} /\ \A c \in CallIds : calls[c].key # k) =>
                 cache'[p][k] = tasks[t].prev]_vars

\* The writes of the key that the process issued after task t.
laterWrites(t) ==
  {t2 \in supersededBy(t) : tasks[t2].op = "upsert"}

\* C11: database backend: when the DELETE of a delete(k) fails and a write
\* of k has been issued after that delete call (possibly followed by further
\* deletes), the cache entry of k is left as the later operations set it.
C11_DeleteRestoreOnlyIfNoLaterWrite ==
  [][\A t \in TaskIds :
       (tasks[t].st = "queued" /\ tasks'[t].st = "settled_err" /\ tasks[t].op = "delete"
          /\ laterWrites(t) # {}) =>
         cache'[tasks[t].proc][tasks[t].key] = cache[tasks[t].proc][tasks[t].key]]_vars

\* C12: after every sequence of store operations one process issues on both
\* backends, with no failure, every read returns the same on both: readJson,
\* readJson5, readText and readJsonWithFallback of every key.
C12_BackendsAgree ==
  backend = "both" =>
    \A k \in Keys :
      /\ FsReadJson(k) = readJson(1, k)
      /\ FsReadJson5(k) = readJson5(1, k)
      /\ FsReadText(k) = readText(1, k)
      /\ FsReadJsonWithFallback(k) = readJsonWithFallback(1, k)

\* Another call holds the lock of the key of call c.
keyHeldByOther(c) ==
  \E c2 \in CallIds :
    /\ c2 # c /\ calls[c2].key = calls[c].key
    /\ calls[c2].pc \in {"locked", "read", "written", "threw", "select", "commit"}

onlyMutation(t) ==
  /\ tasks[t].op = "upsert"
  /\ \A t2 \in TaskIds : (t2 # t /\ tasks[t2].st # "none") => tasks[t2].key # tasks[t].key
  /\ \A c \in CallIds : calls[c].key # tasks[t].key

migStep(p) == mig'[p] # mig[p]

\* C15 as stated: a run of the startup migration that begins after another
\* run of the same direction has returned issues no insert and no file
\* write, and its steps leave rows, files, sentinel and marker as they were.
C15_SecondRunIsNoOp ==
  /\ [](\A p \in Procs : mig[p].after # "none" => mig[p].issued = 0)
  /\ [][\A p \in Procs :
          (migStep(p) /\ mig'[p].after # "none") =>
            (db' = db /\ files' = files /\ sentinel' = sentinel /\ marker' = marker)]_vars

\* C15, amended: a run that begins after a run that returned with
\* failed = 0 issues no insert and no file write and changes nothing; a run
\* that begins after a run that returned with failed > 0 enters the loop
\* again.
C15_SecondRunAfterCleanRunIsNoOp ==
  /\ [](\A p \in Procs : mig[p].after = "clean" => (mig[p].issued = 0 /\ mig[p].pc \in {"idle", "done"}))
  /\ [][\A p \in Procs :
          /\ (migStep(p) /\ mig'[p].after = "clean") =>
               (db' = db /\ files' = files /\ sentinel' = sentinel /\ marker' = marker)
          /\ (mig[p].pc = "idle" /\ mig'[p].after = "failed") =>
               (mig'[p].pc \in {"import", "restore"} /\ mig'[p].todo # {})]_vars

\* A run imported files and wrote the sentinel; the run of the next boot has
\* returned without issuing anything.
C15_Witness ==
  \E p, q \in Procs :
    /\ mig[q].pc = "done" /\ mig[q].issued > 0 /\ mig[q].failed = 0 /\ sentinel
    /\ mig[p].pc = "done" /\ mig[p].after = "clean" /\ mig[p].issued = 0

\* C16 as stated: no step of a migration run changes a row that exists or a
\* file that exists, whatever other processes do in between.
C16_MigrationNeverOverwrites ==
  [][\A p \in Procs, k \in Keys :
       migStep(p) => /\ (db[k] # Null => db'[k] = db[k])
                     /\ (files[k] # NoFile => files'[k] = files[k])]_vars

\* C17: the sentinel row (the marker file) appears only in the step that
\* ends the loop of an upgrade (a downgrade) run whose failed counter is 0;
\* a run that ends with failed > 0 writes neither, so while every returned
\* run had failures both are absent; and a run that starts without sentinel
\* (marker) while there are files (rows) enters the loop over all of them.
C17_SentinelOnlyAfterCleanRun ==
  /\ []((sentinel \/ marker) => \E p \in Procs : mig[p].pc = "done" /\ mig[p].failed = 0)
  /\ [][/\ (sentinel' /\ ~sentinel) =>
             (backend = "database" /\
              \E p \in Procs : mig[p].pc = "import" /\ mig'[p].pc = "done" /\ mig[p].failed = 0)
        /\ (marker' /\ ~marker) =>
             (backend = "fs" /\
              \E p \in Procs : mig[p].pc = "restore" /\ mig'[p].pc = "done" /\ mig[p].failed = 0)
        /\ \A p \in Procs :
             (mig[p].pc \in {"import", "restore"} /\ mig'[p].pc = "done" /\ mig[p].failed > 0) =>
               (sentinel' = sentinel /\ marker' = marker)
        /\ \A p \in Procs :
             (mig[p].pc = "idle" /\ migStep(p) /\ backend = "database" /\ ~sentinel
                /\ \E k \in Keys : files[k] # NoFile) =>
               (mig'[p].pc = "import" /\ mig'[p].todo = {k \in Keys : files[k] # NoFile})
        /\ \A p \in Procs :
             (mig[p].pc = "idle" /\ migStep(p) /\ backend = "fs" /\ ~marker
                /\ \E k \in Keys : db[k] # Null) =>
               (mig'[p].pc = "restore" /\ mig'[p].todo = {k \in Keys : db[k] # Null})]_vars

\* A run returned with a failure, no sentinel and no marker was written, and
\* the run of the next boot is in the loop again.
C17_Witness ==
  \E p, q \in Procs :
    /\ mig[q].pc = "done" /\ mig[q].failed > 0
    /\ ~sentinel /\ ~marker
    /\ mig[p].after = "failed" /\ mig[p].pc \in {"import", "restore"}

\* The state one run alone leaves: every row (file) the destination held,
\* and for the other keys the parsed file (the stringified row).
soloDb == [k \in Keys |->
             IF base[k] # Null THEN base[k]
             ELSE IF files[k] = NoFile \/ JSONparse(files[k]) = ParseError THEN Null
             ELSE JSONparse(files[k])]
soloFiles == [k \in Keys |->
                IF base[k] # NoFile THEN base[k]
                ELSE IF db[k] = Null THEN NoFile ELSE stringify(db[k])]
corruptFiles == {k \in Keys : files[k] # NoFile /\ JSONparse(files[k]) = ParseError}

C19_ResolveAsStated ==
  LET ds == input.OPENCLAW_DATASTORE
      url == input.OPENCLAW_STATE_DB_URL
      v == toLowerCase(trim(ds.s))
  IN output.done =>
       /\ ~ds.set => output.v = "fs"
       /\ (ds.set /\ v \in {S_fs, S_filesystem}) => output.v = "fs"
       /\ (ds.set /\ v \in {S_database, S_db}) =>
            output.v = IF url.set /\ url.s # <<>> THEN "database"
                       ELSE "Error: OPENCLAW_STATE_DB_URL is not configured"
       /\ (ds.set /\ v \notin {S_fs, S_filesystem, S_database, S_db}) =>
            output.v = "Error: Invalid OPENCLAW_DATASTORE value"

\* C19, amended: as stated, except that a value that is empty after
\* trimming is treated as unset (fs), and the URL counts as present only
\* when it is non-empty after trimming. The backend chosen is the one
\* returned, and none is chosen when an error is raised.
C19_ResolveDatastoreType ==
  LET ds == input.OPENCLAW_DATASTORE
      url == input.OPENCLAW_STATE_DB_URL
      v == toLowerCase(trim(ds.s))
  IN output.done =>
       /\ (~ds.set \/ v = <<>>) => output.v = "fs"
       /\ (ds.set /\ v \in {S_fs, S_filesystem}) => output.v = "fs"
       /\ (ds.set /\ v \in {S_database, S_db}) =>
            output.v = IF url.set /\ trim(url.s) # <<>> THEN "database"
                       ELSE "Error: OPENCLAW_STATE_DB_URL is not configured"
       /\ (ds.set /\ v \notin {<<>>, S_fs, S_filesystem, S_database, S_db}) =>
            output.v = "Error: Invalid OPENCLAW_DATASTORE value"
       /\ backend = IF output.v \in {"fs", "database"} THEN output.v ELSE "unresolved"

\* ' DB ' in mixed case and with white space around it, and a URL, resolved
\* to database.
C19_Witness ==
  /\ output.done /\ output.v = "database" /\ backend = "database"
  /\ input.OPENCLAW_DATASTORE.s # toLowerCase(trim(input.OPENCLAW_DATASTORE.s))
  /\ toLowerCase(trim(input.OPENCLAW_DATASTORE.s)) = S_db

C21_NoAliasing ==
  \A p \in Procs, k \in Keys : readJson(p, k) # Mutated

updatesOfX(k) == {u \in CallIds : calls[u].fn = "upsertX" /\ calls[u].key = k}
noEntryX(r) ==
  /\ entriesNamed(storedRegistry(calls[r].key), "X") = 0
  /\ entriesNamed(readRegistry(calls[r].proc, calls[r].key), "X") = 0

overlapping(r) ==
  {c \in CallIds \ {r} : /\ calls[c].key = calls[r].key /\ calls[c].proc = calls[r].proc
                          /\ (c \in calls[r].open \/ r \in calls[c].open)}

txOrder ==
  {<<"idle", "lock">>, <<"idle", "failed">>, <<"lock", "select">>, <<"select", "commit">>,
   <<"select", "threw">>, <<"commit", "reconcile">>, <<"reconcile", "done">>,
   <<"lock", "failed">>, <<"select", "failed">>, <<"commit", "failed">>, <<"threw", "failed">>}
holdsLock(c) == advLock[advisoryLockId(calls[c].key)] = c

\* C24: on the database backend every updateJsonWithLock runs on one
\* pooled connection, in the order begin, advisory lock, select, updater,
\* upsert (exactly when the updater reported a change), commit; the select
\* is made only with the lock granted, the lock is held until the commit
\* or rollback of that transaction, and the connection is back in the
\* pool on every exit path.
C24_TransactionProtocol ==
  /\ [](backend = "database" =>
        \A c \in CallIds :
          /\ calls[c].pc \in {"lock", "select", "commit", "threw"} <=> c \in checkedOut
          /\ calls[c].pc \in {"select", "commit", "threw"} <=> holdsLock(c))
  /\ [][backend = "database" =>
        \A c \in CallIds :
          /\ calls'[c].pc # calls[c].pc => <<calls[c].pc, calls'[c].pc>> \in txOrder
          /\ calls'[c].cur # calls[c].cur => calls[c].pc = "select" /\ holdsLock(c)
          /\ (calls[c].pc = "commit" /\ calls'[c].pc = "reconcile")
               => db' = IF updaterChanged(calls[c].fn, calls[c].cur)
                          THEN [db EXCEPT ![calls[c].key] = updaterResult(calls[c].fn, calls[c].cur)]
                          ELSE db
          /\ (calls'[c].pc = "failed" /\ calls[c].pc # "failed") => db' = db]_vars

\* One call committed a change and one left through the rollback after its
\* updater threw; both connections are back in the pool.
C24_Witness ==
  /\ backend = "database"
  /\ \E c1, c2 \in CallIds :
       /\ calls[c1].pc = "done" /\ calls[c1].fn = "inc" /\ calls[c1].key = "A"
       /\ calls[c2].pc = "failed" /\ calls[c2].err = "updater" /\ calls[c2].key = "A"
       /\ db["A"] = updaterResult("inc", calls[c1].cur)
  /\ checkedOut = {}
  /\ \A i \in LockIds : advLock[i] = 0

\* C25: when initDatastore() has resolved on the database backend (and the
\* preload it awaited did not fail), every row of the database, the rows
\* just imported included, is returned by readJson (the preload's select
\* ran after the import), whatever was called on the instance before; on the
\* filesystem backend with a database URL the restore has finished when
\* initDatastore() resolves.
C25_InitLoadsEveryRow ==
  /\ (/\ backend = "database"
      /\ preload[1].ensured = 1 /\ preload[1].init = "resolved" /\ ~preload[1].failed)
     => \A k \in Keys : db[k] # Null => readJson(1, k) = db[k]
  /\ (backend = "fs" /\ preload[1].init = "resolved") => mig[1].pc = "done"

\* C26: ensurePreloaded() starts preloadAll at most once per instance, and
\* whenever the preloadAll its caller waited for has failed the caller got
\* a rejection, for every interleaving of readJson and ensurePreloaded.
C26_EnsureRejectsOnFailure ==
  /\ preload[1].started <= 1
  /\ preload[1].failed => preload[1].init = "rejected"

\* C27: when preloadAll() completes (with no write of the process still on
\* its way to the database), every key its select returned is cached with
\* the selected value, no key that is absent from the select and from the
\* database remains in the cache, and the backend is marked preloaded.
C27_PreloadReplacesCache ==
  [][(/\ preload[1].pc = "rows" /\ preload'[1].pc = "none" /\ preload'[1].settled = "resolved"
      /\ pendingWrites[1] = {})
     => /\ \A k \in Keys :
             IF preload[1].rows[k] # Null THEN cacheGet(cache'[1][k]) = preload[1].rows[k]
             ELSE db[k] = Null => cache'[1][k] = NoEntry
        /\ preload'[1].preloaded]_vars

\* The step in which invocation r commits.
commits(r) == schema.run[r].pc = "loop" /\ schema'.run[r].pc = "done"

\* C28: applyStateDbMigrations runs the pending migrations in list order in
\* one transaction, skips the ids it found recorded, records each id it
\* applied, and sets the process's flag only after the commit.  Whatever
\* invocations ran, one after the other or at the same time, each migration
\* is applied and recorded at most once; a failed invocation changes neither
\* the schema, nor the recorded ids, nor the flag; an invocation started in
\* a process whose flag is set sends no statement.
C28_MigrationsOnce ==
  /\ [](/\ \A i \in SchemaIds :
             schema.applied[i] = IF i \in schema.recorded THEN 1 ELSE 0
        /\ 2 \in schema.recorded => 1 \in schema.recorded
        /\ \A r \in ApplyIds :
             /\ 2 \in schema.run[r].did => 1 \in schema.run[r].seen \cup schema.run[r].did
             /\ schema.run[r].did \cap schema.run[r].seen = {}
             /\ schema.run[r].pc = "failed" => schema.run[r].did = {}
        /\ \A p \in Procs :
             schema.flag[p] => \E r \in ApplyIds : /\ schema.run[r].proc = p
                                                    /\ schema.run[r].pc = "done"
                                                    /\ schema.run[r].stmts > 0)
  /\ [][/\ (schema'.recorded # schema.recorded \/ schema'.flag # schema.flag)
              => \E r2 \in ApplyIds : commits(r2)
         /\ \A r \in ApplyIds :
            /\ (schema.run[r].pc # "failed" /\ schema'.run[r].pc = "failed")
                 => /\ schema'.recorded = schema.recorded
                    /\ schema'.applied = schema.applied
                    /\ schema'.flag = schema.flag
            /\ (schema.run[r].pc = "idle" /\ schema'.run[r].pc # "idle"
                   /\ schema.flag[schema'.run[r].proc])
                 => /\ schema'.run[r].pc = "done" /\ schema'.run[r].stmts = 0
                    /\ schema'.recorded = schema.recorded
                    /\ schema'.applied = schema.applied
            /\ commits(r) => /\ schema'.recorded = schema.recorded \cup schema.run[r].did
                             /\ schema'.flag[schema.run[r].proc]]_vars

\* On a new database two invocations of one process ran at the same time:
\* the first committed both migrations, the second had read the ids before
\* that commit and failed; a later state has every migration applied once.
C28_Witness ==
  /\ schema.run[1].pc = "done" /\ schema.run[1].did = {1, 2}
  /\ schema.run[2].pc = "failed" /\ schema.run[2].seen = {} /\ schema.run[2].stmts = 6
  /\ schema.run[2].proc = schema.run[1].proc
  /\ schema.recorded = {1, 2}

\* C29: when a flush() has returned and at least one write or delete issued
\* before it failed, what the caller got from flush() differs from what it
\* gets when all of them succeeded.
C29_FlushTellsFailure ==
  \A f \in FlushIds :
    (/\ backend = "database" /\ flushes[f].pc = "returned"
     /\ \E t \in flushes[f].before : tasks[t].st = "settled_err")
    => flushOutcome({tasks[t].st : t \in flushes[f].before}) # flushOutcome({"settled_ok"})

\* The background writes of the restart sentinel.
sentinelWrites == {t \in TaskIds : tasks[t].st # "none" /\ tasks[t].data = RestartSentinel}
\* No write or delete of the sentinel's key was issued after task t.
lastOnKey(t) == \A t2 \in TaskIds : (t2 > t /\ tasks[t2].st # "none") => tasks[t2].key # tasks[t].key

\* C30: writeRestartSentinel resolves only after the background write of
\* the sentinel has settled (on files: with the sentinel on disk).  On the
\* database backend, if that upsert succeeded, the row holds the sentinel
\* from then on, and a process killed after writeRestartSentinel resolved
\* reads the sentinel after its next start.
C30_SentinelDurable ==
  /\ [](\A f \in FlushIds, t \in sentinelWrites :
          (t \in flushes[f].before /\ flushes[f].pc = "returned")
          => /\ settled(t)
             /\ (tasks[t].st = "settled_ok" /\ lastOnKey(t))
                  => /\ db[SentinelKey] = RestartSentinel
                     /\ tasks[t].proc < 0 => readJson(0 - tasks[t].proc, SentinelKey) = RestartSentinel)
  /\ [][\A f \in FlushIds :
          (backend = "fs" /\ flushes[f].pc # "returned" /\ flushes'[f].pc = "returned")
          => JSONparse(files'[SentinelKey]) = RestartSentinel]_vars

\* The sentinel's upsert succeeded, writeRestartSentinel resolved, and the
\* process was killed and started again.
C30_Witness ==
  /\ backend = "database"
  /\ \E f \in FlushIds, t \in sentinelWrites :
       /\ t \in flushes[f].before /\ flushes[f].pc = "returned"
       /\ tasks[t].st = "settled_ok" /\ tasks[t].proc = 0 - 1
       /\ readJson(1, SentinelKey) = RestartSentinel

\* Process 1 is the only one that has used the store.
onlyProcess1 ==
  /\ \A t \in TaskIds : tasks[t].proc \in {0, 1}
  /\ \A c \in CallIds : calls[c].proc \in {0, 1}
\* Nothing is pending: every background task has settled, every
\* updateJsonWithLock and every flush() has returned.
quiescent ==
  /\ \A t \in TaskIds : tasks[t].st \in {"none", "settled_ok", "settled_err"}
  /\ \A c \in CallIds : calls[c].pc \in {"idle", "done", "failed"}
  /\ \A f \in FlushIds : flushes[f].pc \in {"idle", "returned"}

\* C31: database backend, one process and no other writer: whatever
\* writeJson, delete and updateJsonWithLock calls were issued and whichever
\* background statements failed, once nothing is pending the cached value of
\* every key equals its row (both absent, or both present and equal).
C31_CacheEqualsRowWhenQuiescent ==
  (backend = "database" /\ onlyProcess1 /\ quiescent) =>
    \A k \in Keys : readJson(1, k) = selectData(k)

\* ------------------------------------------- write, then update, no flush
\* No updateJsonWithLock has been called yet.
noCallYet == \A c \in CallIds : calls[c].pc = "idle"

\* Process 1, started on a database that holds key A: it writes or deletes
\* the key, then calls updateJsonWithLock on it without a flush() in
\* between; no statement fails.
NextWriteThenUpdate ==
  \/ \E t \in TaskIds, d \in Docs : noCallYet /\ PgWriteJson(t, 1, "A", d)
  \/ \E t \in TaskIds : noCallYet /\ PgDelete(t, 1, "A")
  \/ \E t \in TaskIds : TaskRun(t)
  \/ \E c \in CallIds, fn \in Updaters :
       tasksOf(1, "A") # {} /\ PgUpdateJsonWithLock(c, 1, "A", fn)
  \/ \E c \in CallIds : PgUpdLock(c)
  \/ \E c \in CallIds : PgUpdSelect(c)
  \/ \E c \in CallIds : withTransactionCommit(c)
  \/ \E c \in CallIds : PgUpdReconcile(c)

SpecWriteThenUpdate == InitLoaded /\ [][NextWriteThenUpdate]_vars

\* C32: database backend: the updater of an updateJsonWithLock(k, u) called
\* after writeJson(k, d) or delete(k) of the same process, with no flush in
\* between, is given the value the earlier calls left (d, or null after a
\* delete), and no background statement of those earlier calls changes the
\* row once the update has committed a change to it.
C32_UpdateSeesEarlierWrites ==
  [][/\ \A c \in CallIds :
          (calls[c].pc = "select" /\ calls'[c].pc \in {"commit", "threw"}) =>
             calls'[c].cur = rowAfter(lastTask(calls[c].proc, calls[c].key))
     /\ \A t \in TaskIds :
          (/\ tasks[t].st = "queued" /\ tasks'[t].st = "settled_ok"
           /\ \E c \in CallIds : /\ calls[c].proc = tasks[t].proc /\ calls[c].key = tasks[t].key
                                 /\ calls[c].pc \in {"reconcile", "done"}
                                 /\ updaterChanged(calls[c].fn, calls[c].cur))
          => db' = db]_vars

\* C33: database backend: when a preloadAll completes in a process that
\* has issued a writeJson or delete on key k, the rows it loads do not
\* change what the cache holds for k: the entry is not replaced by the
\* older document the select returned and is not created again.
C33_PreloadKeepsNewerEntry ==
  [][\A p \in Procs, k \in Keys :
       (preload[p].pc = "rows" /\ preload'[p].pc = "none" /\ tasksOf(p, k) # {}) =>
         cacheGet(cache'[p][k]) = cacheGet(cache[p][k])]_vars

\* The content of the file of key k as the strict parse of
\* updateJsonWithLock reads it.
currentOf(k) == IF files[k] = NoFile THEN Null ELSE JSONparse(files[k])

\* C34: filesystem backend: the document an updateJsonWithLock writes is
\* computed from the content its key holds immediately before that write:
\* between the read and the write of the call no writeJson,
\* writeJsonWithBackup, writeText or delete of another process has changed
\* the key.
C34_UpdateAtomicWithPlainWrites ==
  [][\A c \in CallIds :
       (backend = "fs" /\ calls[c].pc = "read" /\ calls'[c].pc = "written"
          /\ updaterChanged(calls[c].fn, calls[c].cur)) =>
         /\ currentOf(calls[c].key) # ParseError
         /\ files'[calls[c].key] =
              stringify(updaterResult(calls[c].fn, currentOf(calls[c].key)))]_vars

\* ------------------------------------------------- switching the backend
\* The process exits and is started again with OPENCLAW_DATASTORE
\* resolving to `type` (the same backend or the other one;
\* OPENCLAW_STATE_DB_URL is kept): getDatastore() builds that datastore,
\* with an empty cache, and initDatastore() is about to run the migration
\* of that direction.  Every background statement of the old process had
\* settled.  `base` keeps what the backend left behind held for each key.
StartProcess(p, type) ==
  /\ backend \in {"fs", "database"}
  /\ mig[p].pc = "done"
  /\ \A t \in TaskIds : tasks[t].st # "queued"
  /\ backend' = type
  /\ base' = [k \in Keys |-> stored(k)]
  /\ mig' = [mig EXCEPT ![p] = IdleMig]
  /\ cache' = [cache EXCEPT ![p] = [k \in Keys |-> NoEntry]]
  /\ UNCHANGED <<budget, sentinel, marker, pureVars, sideVars, ops, calls, fsVars,
                 db, advLock, checkedOut, tasks, writeChains, pendingWrites, flushes>>

\* The first start of process 1: on the filesystem backend, with state
\* files on disk, an empty table, no sentinel and no marker.
InitSwitch ==
  /\ backend = "fs"
  /\ InitFs
  /\ InitAux
  /\ files \in [Keys -> {NoFile, stringify(Obj(0))}]
  /\ db = [k \in Keys |-> Null]
  /\ base = [k \in Keys |-> Null]

\* initDatastore() of each start (no statement and no file write fails), the
\* writes the process makes once it has returned, and the switches.
NextSwitch ==
  \/ MigStart(1)
  \/ \E k \in Keys : MigImport(1, k)
  \/ \E k \in Keys : MigExists(1, k)
  \/ MigSave(1)
  \/ MigFinish(1)
  \/ \E k \in Keys : mig[1].pc = "done" /\ FsWriteJson(k, Obj(1))
  \/ \E t \in TaskIds, k \in Keys : mig[1].pc = "done" /\ PgWriteJson(t, 1, k, Obj(2))
  \/ \E t \in TaskIds : TaskRun(t)
  \/ \E type \in {"fs", "database"} : type # backend /\ StartProcess(1, type)

SpecSwitch == InitSwitch /\ [][NextSwitch]_vars

\* The document the active backend stores under key k after the step.
storedNext(k) ==
  IF backend' = "fs" THEN (IF files'[k] = NoFile THEN Null ELSE JSONparse(files'[k])) ELSE db'[k]

\* C35: across startups that alternate the configured backend, when the
\* migration of initDatastore() returns the newly active backend holds,
\* for every key the previously active backend stored, the value stored
\* there: no sentinel or marker of an earlier switch makes it skip.
C35_SwitchCarriesLastValues ==
  [][(mig[1].pc # "done" /\ mig'[1].pc = "done") =>
       \A k \in Keys : base[k] # Null => storedNext(k) = base[k]]_vars

\* ------------------------------------------- restarts on the database
\* Process 1 starts on the database backend with state files on disk (some
\* corrupt) and rows in the table, serves deletes once initDatastore() has
\* returned, and is restarted on the same backend; import statements can
\* fail.
InitReboot == InitMigration /\ backend = "database"

NextReboot ==
  \/ MigStart(1)
  \/ \E k \in Keys : MigImport(1, k)
  \/ \E k \in Keys : MigImportFail(1, k)
  \/ MigFinish(1)
  \/ \E t \in TaskIds, k \in Keys : mig[1].pc = "done" /\ PgDelete(t, 1, k)
  \/ \E t \in TaskIds : TaskRun(t)
  \/ StartProcess(1, "database")

SpecReboot == InitReboot /\ [][NextReboot]_vars

\* C36: a key whose DELETE has run on the database backend (and that
\* nothing wrote afterwards) has no row, also after later restarts: no
\* initDatastore() inserts it again from the state file left on disk,
\* whether the earlier import runs were complete, failed in part or found
\* no file.
C36_DeletedStaysDeleted ==
  \A t \in TaskIds :
    (tasks[t].op = "delete" /\ tasks[t].st = "settled_ok") => db[tasks[t].key] = Null

\* C37: database backend, one process, nothing but updateJsonWithLock:
\* once all calls on a key have completed, at least one of them
\* successfully, the cache of the process holds for that key what the
\* last committed transaction left in the row (the reconciliations took
\* effect in commit order).
C37_CacheHoldsLastCommit ==
  \A k \in Keys :
    LET cs == {c \in CallIds : calls[c].key = k}
    IN (/\ backend = "database"
        /\ \A c \in cs : calls[c].proc = 1 /\ calls[c].pc \in {"done", "failed"}
        /\ \E c \in cs : calls[c].pc = "done")
       => readJson(1, k) = selectData(k)

\* C38: database backend: the document the background task of
\* writeJson(k, d) upserts is d as it was when writeJson was called, i.e.
\* the clone published to the cache, also when the caller has changed d
\* in place before the task runs.
C38_UpsertsDocumentAsWritten ==
  [][\A t \in TaskIds :
       (tasks[t].st = "queued" /\ tasks'[t].st = "settled_ok" /\ tasks[t].op = "upsert") =>
         db'[tasks[t].key] = tasks[t].cloned.val]_vars

\* ------------------------------------------- consuming the restart sentinel
\* consumeRestartSentinel on the database backend, recorded as a call
\* whose cur is the value it returns.  readRestartSentinel reads the key;
\* a document that is not a version-1 sentinel is deleted there and null
\* is returned, a valid one is deleted by consumeRestartSentinel and
\* returned.  Either way one delete() is issued: the cache entry goes at
\* once, the DELETE is chained as a background task and is not flushed.
consumeRestartSentinel(c, t, p) ==
  /\ backend = "database"
  /\ isNextCall(c)
  /\ isNextTask(t)
  /\ calls' = [calls EXCEPT ![c] = [IdleCall EXCEPT !.proc = p, !.key = SentinelKey,
                                                    !.fn = "consume", !.pc = "done",
                                                    !.cur = IF readJson(p, SentinelKey) = RestartSentinel
                                                              THEN RestartSentinel ELSE Null]]
  /\ cache' = [cache EXCEPT ![p][SentinelKey] = NoEntry]
  /\ enqueue(t, p, SentinelKey, "delete", Null, NoEntry)
  /\ ops' = ops + 1
  /\ UNCHANGED <<backend, auxVars, base, fsVars, db, advLock, checkedOut, flushes>>

\* A process that started with the sentinel of its predecessor stored
\* (written once, flushed) consumes it; its DELETE runs or fails; the
\* process exits and the next one starts and consumes.  A second
\* process of the same state directory does the same.
NextConsume ==
  \/ \E c \in CallIds, t \in TaskIds, p \in Procs : consumeRestartSentinel(c, t, p)
  \/ \E t \in TaskIds : TaskRun(t)
  \/ \E t \in TaskIds : TaskFail(t)
  \/ \E p \in Procs : PgRestart(p)

SpecConsume == InitLoaded /\ [][NextConsume]_vars

\* C39: the sentinel written once is returned by at most one
\* consumeRestartSentinel, in this process or in one started later.
C39_SentinelConsumedAtMostOnce ==
  Cardinality({c \in CallIds : calls[c].fn = "consume" /\ calls[c].cur = RestartSentinel}) <= 1

\* ------------------------------------------- settling of background tasks
\* One process issues writes, deletes and flushes; every statement it
\* has sent returns or fails.
NextSettle ==
  \/ \E t \in TaskIds, k \in Keys : PgWriteJson(t, 1, k, Obj(0))
  \/ \E t \in TaskIds, k \in Keys : PgDelete(t, 1, k)
  \/ \E f \in FlushIds : PgFlush(f, 1)
  \/ \E t \in TaskIds : TaskRun(t)
  \/ \E t \in TaskIds : TaskFail(t)
  \/ \E f \in FlushIds : PgFlushReturn(f)

\* pool.query of a task whose chain has settled returns or rejects, and
\* the continuation of a settled Promise.allSettled is run by the event
\* loop.
FairSettle ==
  /\ \A t \in TaskIds : WF_vars(TaskRun(t) \/ TaskFail(t))
  /\ \A f \in FlushIds : WF_vars(PgFlushReturn(f))

SpecSettle == InitLoaded /\ [][NextSettle]_vars /\ FairSettle

\* The tasks of the process and key of t that were issued after t.
laterTasks(t) ==
  {t2 \in TaskIds : /\ t2 > t /\ tasks[t2].st # "none"
                    /\ tasks[t2].proc = tasks[t].proc /\ tasks[t2].key = tasks[t].key}

\* C40: every background task settles, is then out of pendingWrites, and
\* its key's write chain is removed unless a later task of the key
\* exists; every flush returns, whether its tasks ran or failed, and waits
\* only for tasks issued before it was called.
C40_TasksSettleAndFlushReturns ==
  /\ [](\A t \in TaskIds : settled(t) =>
          /\ t \notin pendingWrites[tasks[t].proc]
          /\ writeChains[tasks[t].proc][tasks[t].key] # t
          /\ laterTasks(t) = {} => writeChains[tasks[t].proc][tasks[t].key] = 0)
  /\ [](\A f \in FlushIds : flushes[f].waitFor \subseteq flushes[f].before)
  /\ \A t \in TaskIds : (tasks[t].st = "queued") ~> settled(t)
  /\ \A f \in FlushIds : (flushes[f].pc = "waiting") ~> (flushes[f].pc = "returned")

\* A flush has returned after a task it waited for failed, while a task
\* issued after the flush is still queued.
C40_Witness ==
  \E f \in FlushIds, t \in TaskIds, t2 \in TaskIds :
    /\ flushes[f].pc = "returned"
    /\ t \in flushes[f].waitFor
    /\ tasks[t].st = "settled_err"
    /\ t \notin pendingWrites[1]
    /\ t2 \notin flushes[f].before
    /\ tasks[t2].st = "queued"
    /\ writeChains[1][tasks[t2].key] = t2

====
